---- MODULE Spec2Model ----
(***************************************************************************)
(* Model of the Spaartje analytics dashboard: the four client pages        *)
(* (overview "Dashboard", users, feature, onboarding), each of which runs  *)
(* fetch-and-aggregate passes against the event store and writes the       *)
(* aggregated metrics into its React state.                                *)
(*                                                                         *)
(* Time is counted in ticks, TicksPerDay ticks to a calendar day.  An      *)
(* event's received_at is the tick in which it was received; "now" is an   *)
(* instant on a tick boundary, so every stored event has ts < now.  The    *)
(* browser's time zone is taken to be UTC.                                 *)
(***************************************************************************)
EXTENDS Integers, Sequences, FiniteSets, TLC

VARIABLES
    page,       \* the mounted page component
    now,        \* the clock, in ticks
    store,      \* analytics_events rows, ordered by received_at ascending
    messages,   \* chat_messages rows, ordered by created_at ascending
    timeRange,  \* the page's timeRange state
    passes,     \* the fetchData calls in flight, by pass id
    nextId,     \* id of the next pass to start
    timer,      \* overview: the installed intervals, each with the range its
                \* fetchData captured
    display,    \* the page's React state that the passes write
    loading,    \* the page's loading flag
    locals,     \* local values of the aggregation that ran last (dailyMap, ...)
    arrivals,   \* the number of rows recorded since the page was mounted
    done,       \* history: the pass that completed last, or NoPass
    latency,    \* users page: latencyTimeRange, latencyLoading, the fetchLatency
                \* calls in flight and (history) the outcome of the last one
    gate        \* the navigation in front of the application: the request the
                \* middleware sees, the request it began with, redirects followed

vars == <<page, now, store, messages, timeRange, passes, nextId, timer,
          display, loading, locals, arrivals, done, latency, gate>>

---------------------------------------------------------------------------
(* Bounds of the model *)

TicksPerDay == 2
MaxEvents == 3
MaxFunnelEvents == 4
MaxPasses == 3
MaxArrivals == 1
MaxTicks == 2
MaxLatencyFetches == 2

\* Redirects a client follows before it gives up
MaxRedirects == 2
MaxUserEvents == 51

---------------------------------------------------------------------------
(* JavaScript numbers.  Counts are integers; NaN and Infinity are two       *)
(* values outside the range any count or rounded ratio of the model takes. *)

NaN == 0 - 1000000
Infinity == 0 - NaN

IsFinite(x) == x # NaN /\ x # Infinity /\ x # 0 - Infinity

Min(a, b) == IF a < b THEN a ELSE b
Max(a, b) == IF a > b THEN a ELSE b
Abs(a) == IF a < 0 THEN 0 - a ELSE a

\* Math.round((a / b) * k): the quotient a / b is NaN for 0 / 0 and
\* +-Infinity for x / 0; Math.round rounds halves towards +Infinity.
RoundRatio(a, b, k) ==
    IF ~IsFinite(a) \/ ~IsFinite(b) THEN NaN
    ELSE IF b = 0 THEN (IF a = 0 THEN NaN ELSE IF a > 0 THEN Infinity ELSE 0 - Infinity)
    ELSE (2 * k * a + b) \div (2 * b)

\* (a / b * k).toFixed(0): halves are rounded away from zero.
ToFixed0Ratio(a, b, k) ==
    IF b = 0 THEN (IF a = 0 THEN NaN ELSE IF a > 0 THEN Infinity ELSE 0 - Infinity)
    ELSE IF a >= 0 THEN (2 * k * a + b) \div (2 * b)
    ELSE 0 - ((2 * k * (0 - a) + b) \div (2 * b))

---------------------------------------------------------------------------
(* Sequences *)

\* array.forEach(e => ...) over an accumulator, as in the dailyMap loop
\* (src/app/users/page.tsx:137-146)
RECURSIVE FoldLeft(_, _, _)
FoldLeft(Op(_, _), acc, s) ==
    IF acc = acc /\ s = <<>> THEN acc  \* acc = acc has the accumulator computed once
    ELSE FoldLeft(Op, Op(acc, Head(s)), Tail(s))

Reverse(s) == [i \in 1..Len(s) |-> s[Len(s) + 1 - i]]

\* Array.prototype.slice(-n)
SliceLast(s, n) ==
    IF Len(s) <= n THEN s ELSE SubSeq(s, Len(s) - n + 1, Len(s))

\* Array.prototype.slice(0, n)
SliceFirst(s, n) == IF Len(s) <= n THEN s ELSE SubSeq(s, 1, n)

Range(s) == {s[i] : i \in 1..Len(s)}

RECURSIVE SumSeq(_)
SumSeq(s) == IF s = <<>> THEN 0 ELSE Head(s) + SumSeq(Tail(s))

---------------------------------------------------------------------------
(* Time *)

NoTs == 0 - 1                      \* a row whose received_at is null

DateOf(ts) == ts \div TicksPerDay  \* received_at.split('T')[0]
subDays(t, n) == t - n * TicksPerDay
Today(t) == DateOf(t)              \* format(new Date(), 'yyyy-MM-dd')

\* format(new Date(date), 'MMM dd'): the label drops the year.
FormatMMMdd(date) == date % 365

\* startOfWeek(date, { weekStartsOn: 1 }); day 0 of the model is a Monday.
startOfWeek(ts) == (DateOf(ts) \div 7) * 7

AllRanges == {"24h", "7d", "30d", "3m", "6m", "9m", "1y"}

\* subMonths counts calendar months; the model takes a month as 30 days.
RangeDays(range) ==
    CASE range = "24h" -> 1
      [] range = "7d" -> 7
      [] range = "30d" -> 30
      [] range = "3m" -> 90
      [] range = "6m" -> 180
      [] range = "9m" -> 270
      [] range = "1y" -> 360

getDateFilter(range, t) == subDays(t, RangeDays(range))

---------------------------------------------------------------------------
(* The event store *)

NullUid == "null"                  \* a row whose firebase_uid is null

NoProps == [savings_cents |-> 0, is_new_user |-> FALSE,
            is_returning_device |-> FALSE, list_key |-> ""]

\* An analytics_events row.  props.savings_cents = 0, list_key = "" and
\* platform = "" stand for an absent (falsy) value.
Ev(ts, uid, name) ==
    [ts |-> ts, uid |-> uid, name |-> name, platform |-> "", props |-> NoProps]

EvP(ts, uid, name, platform) == [Ev(ts, uid, name) EXCEPT !.platform = platform]

EvS(ts, uid, name, cents) == [Ev(ts, uid, name) EXCEPT !.props.savings_cents = cents]

EvA(ts, uid, isNew, isRet) ==
    [Ev(ts, uid, "auth_anonymous_selected") EXCEPT
        !.props.is_new_user = isNew, !.props.is_returning_device = isRet]

EvL(ts, uid, key) == [Ev(ts, uid, "demo_list_selected") EXCEPT !.props.list_key = key]

\* ORDER BY received_at ASC puts null timestamps last.
SortKey(e) == IF e.ts = NoTs THEN Infinity ELSE e.ts

IsAscending(rows) ==
    \A i \in 1..(Len(rows) - 1) : SortKey(rows[i]) <= SortKey(rows[i + 1])

\* supabase.from('analytics_events').select(...).gte('received_at', dateFilter)
\*   .order('received_at', { ascending }): a null received_at fails the filter.
EventsSince(rows, dateFilter, ascending) ==
    LET InRange(e) == e.ts # NoTs /\ e.ts >= dateFilter
        hit == SelectSeq(rows, InRange)
    IN IF ascending THEN hit ELSE Reverse(hit)

\* ... .in('event_name', names)
EventsNamed(rows, names) ==
    LET Named(e) == e.name \in names
    IN SelectSeq(rows, Named)

---------------------------------------------------------------------------
(* Daily buckets: the dailyMap loop of the users, feature and overview pages *)

MapHas(m, key) == \E i \in 1..Len(m) : m[i].key = key

\* A faulty dailyMap loop: the users of a day are counted once per event
DailyMapPutCountsEveryEvent(m, e) ==
    LET date == DateOf(e.ts)
        m1 == IF MapHas(m, date) THEN m
              ELSE Append(m, [key |-> date, users |-> {}, events |-> 0])
    IN [i \in 1..Len(m1) |->
          IF m1[i].key = date
          THEN [m1[i] EXCEPT !.users = @ \cup {<<e.uid, m1[i].events>>},
                             !.events = @ + 1]
          ELSE m1[i]]

\* A faulty dailyMap loop: the event that opens a day is not counted
DailyMapPutResets(m, e) ==
    LET date == DateOf(e.ts)
    IN IF MapHas(m, date)
       THEN [i \in 1..Len(m) |->
               IF m[i].key = date
               THEN [m[i] EXCEPT !.users = @ \cup {e.uid}, !.events = @ + 1]
               ELSE m[i]]
       ELSE Append(m, [key |-> date, users |-> {e.uid}, events |-> 0])

\* if (!dailyMap.has(date)) dailyMap.set(date, {users: new Set(), events: 0});
\* day.users.add(e.firebase_uid); day.events++
DailyMapPut(m, e) ==
    LET date == DateOf(e.ts)
        m1 == IF MapHas(m, date) THEN m
              ELSE Append(m, [key |-> date, users |-> {}, events |-> 0])
    IN [i \in 1..Len(m1) |->
          IF m1[i].key = date
          THEN [m1[i] EXCEPT !.users = @ \cup {e.uid}, !.events = @ + 1]
          ELSE m1[i]]

DailyMap(events) == FoldLeft(DailyMapPut, <<>>, events)

\* Array.from(dailyMap.entries()).map(([date, data]) => ({date: format(..),
\*   dau: data.users.size, events: data.events}))
DailyRows(m) ==
    [i \in 1..Len(m) |->
        [date |-> FormatMMMdd(m[i].key),
         users |-> Cardinality(m[i].users),
         events |-> m[i].events]]

DailyWindow == 14

---------------------------------------------------------------------------
(* Users page: UsersPage.fetchData *)

\* new Set(events.map(e => e.firebase_uid))
UidsOf(events) == {events[i].uid : i \in 1..Len(events)}

WithName(events, names) ==
    LET Hit(e) == e.name \in names
    IN SelectSeq(events, Hit)

Since(events, from) ==
    LET Hit(e) == e.ts >= from
    IN SelectSeq(events, Hit)

Between(events, from, to) ==
    LET Hit(e) == e.ts >= from /\ e.ts < to
    IN SelectSeq(events, Hit)

BasketEvents(events) == WithName(events, {"basket_results_displayed"})

\* A faulty rate: the division without its guard
GuardedRateUnguarded(n, x, k) == RoundRatio(n, x, k)

\* x > 0 ? Math.round((n / x) * k) : 0
GuardedRate(n, x, k) == IF x > 0 THEN RoundRatio(n, x, k) ELSE 0

\* === DAU / WAU / MAU ===
\* A faulty DAU: the filter on today is missing
UsersDauAllDays(events, t) == Cardinality(UidsOf(events))

UsersDau(events, t) ==
    LET IsToday(e) == DateOf(e.ts) = Today(t)
    IN Cardinality(UidsOf(SelectSeq(events, IsToday)))

UsersWau(events, t) == Cardinality(UidsOf(Since(events, subDays(t, 7))))

UsersMau(events) == Cardinality(UidsOf(events))

\* === Weekly Users Chart ===
WeeklyMapPut(m, e) ==
    LET week == FormatMMMdd(startOfWeek(e.ts))
        m1 == IF MapHas(m, week) THEN m
              ELSE Append(m, [key |-> week, users |-> {}, baskets |-> 0])
    IN [i \in 1..Len(m1) |->
          IF m1[i].key = week
          THEN [m1[i] EXCEPT
                  !.users = @ \cup {e.uid},
                  !.baskets = IF e.name = "basket_results_displayed" THEN @ + 1 ELSE @]
          ELSE m1[i]]

\* basketsPerUser is kept in tenths: Math.round((baskets / users) * 10) / 10
WeeklyRows(events) ==
    LET m == FoldLeft(WeeklyMapPut, <<>>, events)
        rows == [i \in 1..Len(m) |->
                   [week |-> m[i].key,
                    wau |-> Cardinality(m[i].users),
                    baskets |-> m[i].baskets,
                    basketsPerUser10 |->
                        GuardedRate(m[i].baskets, Cardinality(m[i].users), 10)]]
    IN SliceLast(rows, 6)

\* === Baskets & Savings ===
SavingsOf(events) ==
    LET Add(acc, e) == IF e.props.savings_cents # 0
                       THEN [total |-> acc.total + e.props.savings_cents,
                             n |-> acc.n + 1]
                       ELSE acc
    IN FoldLeft(Add, [total |-> 0, n |-> 0], events)

AvgSavingsPerBasket(events) ==
    LET s == SavingsOf(BasketEvents(events))
    IN GuardedRate(s.total, s.n, 1)

\* === Action Rate ===
ActionNames == {"product_swapped", "comparison_started", "shopping_list_saved"}

ActionRate(events) ==
    LET basketsWithAction == Cardinality(UidsOf(WithName(events, ActionNames)))
        basketUsers == Cardinality(UidsOf(BasketEvents(events)))
    IN GuardedRate(basketsWithAction, basketUsers, 100)

\* === Retention (W1) ===
W1Retention(events, t) ==
    LET twoWeeksAgo == subDays(t, 14)
        oneWeekAgo == subDays(t, 7)
        usersWeek1 == UidsOf(Between(events, twoWeeksAgo, oneWeekAgo))
        usersWeek2 == UidsOf(Since(events, oneWeekAgo))
        retained == Cardinality(usersWeek1 \cap usersWeek2)
    IN GuardedRate(retained, Cardinality(usersWeek1), 100)

\* === Cohort Retention ===
CohortUsers(events, t, weeksAgo) ==
    UidsOf(Between(events, subDays(t, weeksAgo * 7), subDays(t, (weeksAgo - 1) * 7)))

\* A faulty check: a user outside the cohort counts as returned
checkRetentionAnyUser(events, t, weeksAgo, weeksLater) ==
    IF weeksAgo - weeksLater < 0 THEN 0
    ELSE LET checkStart == subDays(t, (weeksAgo - weeksLater) * 7)
             checkEnd == subDays(t, Max(0, (weeksAgo - weeksLater - 1) * 7))
             Returned(e) == e.ts >= checkStart /\ e.ts < checkEnd
         IN Cardinality(UidsOf(SelectSeq(events, Returned)))

\* A faulty check: a window that has not begun is read as the latest week
checkRetentionLatestWeek(events, t, weeksAgo, weeksLater) ==
    LET back == Max(1, weeksAgo - weeksLater)
        checkStart == subDays(t, back * 7)
        checkEnd == subDays(t, (back - 1) * 7)
        cohort == UidsOf(Between(events, subDays(t, weeksAgo * 7),
                                 subDays(t, (weeksAgo - 1) * 7)))
        Returned(e) == e.ts >= checkStart /\ e.ts < checkEnd /\ e.uid \in cohort
    IN Cardinality(UidsOf(SelectSeq(events, Returned)))

\* const checkRetention = (weeksLater) => { ... }
checkRetention(events, t, weeksAgo, weeksLater) ==
    IF weeksAgo - weeksLater < 0 THEN 0
    ELSE LET checkStart == subDays(t, (weeksAgo - weeksLater) * 7)
             checkEnd == subDays(t, Max(0, (weeksAgo - weeksLater - 1) * 7))
             cohort == CohortUsers(events, t, weeksAgo)
             Returned(e) == e.ts >= checkStart /\ e.ts < checkEnd /\ e.uid \in cohort
         IN Cardinality(UidsOf(SelectSeq(events, Returned)))

CohortRow(events, t, weeksAgo) ==
    LET n == Cardinality(CohortUsers(events, t, weeksAgo))
    IN [cohort |-> FormatMMMdd(DateOf(subDays(t, weeksAgo * 7))),
        users |-> n,
        w1 |-> GuardedRate(checkRetention(events, t, weeksAgo, 1), n, 100),
        w2 |-> GuardedRate(checkRetention(events, t, weeksAgo, 2), n, 100),
        w4 |-> GuardedRate(checkRetention(events, t, weeksAgo, 4), n, 100)]

\* A faulty loop: the latest cohort is listed first
RECURSIVE CohortsFromNewestFirst(_, _, _)
CohortsFromNewestFirst(events, t, weeksAgo) ==
    IF weeksAgo < 1 THEN <<>>
    ELSE IF CohortUsers(events, t, weeksAgo) = {}
         THEN CohortsFromNewestFirst(events, t, weeksAgo - 1)
         ELSE CohortsFromNewestFirst(events, t, weeksAgo - 1)
                 \o <<CohortRow(events, t, weeksAgo)>>

\* for (let weeksAgo = 4; weeksAgo >= 1; weeksAgo--) { ... if (size === 0) continue; push }
RECURSIVE CohortsFrom(_, _, _)
CohortsFrom(events, t, weeksAgo) ==
    IF weeksAgo < 1 THEN <<>>
    ELSE IF CohortUsers(events, t, weeksAgo) = {}
         THEN CohortsFrom(events, t, weeksAgo - 1)
         ELSE <<CohortRow(events, t, weeksAgo)>> \o CohortsFrom(events, t, weeksAgo - 1)

CohortWeeks == 4

Cohorts(events, t) == CohortsFrom(events, t, CohortWeeks)

\* === User Segments by Activity Level ===
UserActivityPut(m, e) ==
    LET m1 == IF MapHas(m, e.uid) THEN m
              ELSE Append(m, [key |-> e.uid, events |-> 0, savings |-> 0])
    IN [i \in 1..Len(m1) |->
          IF m1[i].key = e.uid
          THEN [m1[i] EXCEPT !.events = @ + 1,
                             !.savings = @ + e.props.savings_cents]
          ELSE m1[i]]

UserActivity(events) == FoldLeft(UserActivityPut, <<>>, events)

PowerMin == 50
ActiveMin == 20
CasualMin == 5

\* A faulty assignment: the thresholds are exclusive
SegmentOfExclusive(n) ==
    IF n > PowerMin THEN 1
    ELSE IF n > ActiveMin THEN 2
    ELSE IF n > CasualMin THEN 3
    ELSE 4

\* if (data.events >= 50) segment = 0; else if (>= 20) 1; else if (>= 5) 2; else 3
SegmentOf(n) ==
    IF n >= PowerMin THEN 1
    ELSE IF n >= ActiveMin THEN 2
    ELSE IF n >= CasualMin THEN 3
    ELSE 4

SegmentNames ==
    <<"Power (50+ events)", "Active (20-49)", "Casual (5-19)", "New (1-4)">>

\* segments[segment].users++; .avgEvents += data.events; .avgSavings += data.savings
SegmentAdd(segs, data) ==
    [segs EXCEPT ![SegmentOf(data.events)] =
        [@ EXCEPT !.users = @ + 1,
                  !.avgEvents = @ + data.events,
                  !.avgSavings = @ + data.savings]]

\* A faulty average: the sums are left undivided
SegmentAverageKeepsSum(s) == s

\* if (s.users > 0) { s.avgEvents = Math.round(s.avgEvents / s.users); ... }
SegmentAverage(s) ==
    IF s.users > 0
    THEN [s EXCEPT !.avgEvents = RoundRatio(s.avgEvents, s.users, 1),
                   !.avgSavings = RoundRatio(s.avgSavings, s.users, 1)]
    ELSE s

Segments(events) ==
    LET empty == [i \in 1..4 |->
                    [segment |-> SegmentNames[i], users |-> 0,
                     avgEvents |-> 0, avgSavings |-> 0]]
        summed == FoldLeft(SegmentAdd, empty, UserActivity(events))
    IN [i \in 1..4 |-> SegmentAverage(summed[i])]

\* === Activation Metrics ===
AhaCents == 300

ActivationMetrics(events) ==
    LET onboardingStarted == Cardinality(UidsOf(WithName(events, {"onboarding_started"})))
        onboardingCompleted == Cardinality(UidsOf(WithName(events, {"onboarding_completed"})))
        firstBasketUsers == Cardinality(UidsOf(BasketEvents(events)))
        Aha(e) == e.props.savings_cents >= AhaCents
        ahaUsers == Cardinality(UidsOf(SelectSeq(BasketEvents(events), Aha)))
    IN [onboardingCompletionRate |-> GuardedRate(onboardingCompleted, onboardingStarted, 100),
        firstBasketRate |-> GuardedRate(firstBasketUsers, UsersMau(events), 100),
        ahaEventRate |-> GuardedRate(ahaUsers, firstBasketUsers, 100)]

\* === Acquisition Metrics (True New vs Returning) ===
AcquisitionPut(acc, e) ==
    IF e.props.is_new_user
    THEN [acc EXCEPT !.trulyNew = @ \cup {e.uid}]
    ELSE IF e.props.is_returning_device
         THEN [acc EXCEPT !.returning = @ \cup {e.uid}]
         ELSE acc

AcquisitionSets(events) ==
    FoldLeft(AcquisitionPut, [trulyNew |-> {}, returning |-> {}],
             WithName(events, {"auth_anonymous_selected"}))

AcquisitionMetrics(events) ==
    LET sets == AcquisitionSets(events)
        IsNew(e) == e.uid \in sets.trulyNew
        newUsersWithBasket == SelectSeq(BasketEvents(events), IsNew)
    IN [trulyNewUsers |-> Cardinality(sets.trulyNew),
        returningDeviceUsers |-> Cardinality(sets.returning),
        newUserConversionRate |->
            GuardedRate(Cardinality(UidsOf(newUsersWithBasket)),
                        Cardinality(sets.trulyNew), 100)]

\* === Performance ===
\* A chat_messages row: [ms |-> processing_ms, type |-> response_type, ts |-> created_at];
\* ms = 0 and type = "" are falsy.
Msg(ts, type, ms) == [ts |-> ts, type |-> type, ms |-> ms]

\* messages?.filter(m => m.processing_ms).map(m => m.processing_ms) || []
ProcessingTimes(msgs) ==
    LET Timed(m) == m.ms # 0
        hit == SelectSeq(msgs, Timed)
    IN [i \in 1..Len(hit) |-> hit[i].ms]

AvgProcessingMs(msgs) ==
    LET times == ProcessingTimes(msgs)
    IN GuardedRate(SumSeq(times), Len(times), 1)

BasketSuccessRate(events) ==
    GuardedRate(Len(BasketEvents(events)),
                Len(WithName(events, {"comparison_started"})), 100)

\* === Latency per Response Type ===
\* [...times].sort((a, b) => a - b)
InsertAsc(sorted, x) ==
    LET k == Cardinality({i \in 1..Len(sorted) : sorted[i] <= x})
    IN SubSeq(sorted, 1, k) \o <<x>> \o SubSeq(sorted, k + 1, Len(sorted))

SortAsc(s) == FoldLeft(InsertAsc, <<>>, s)

\* rows.sort((a, b) => Key(b) - Key(a)): Array.prototype.sort is stable
SortDescBy(s, Key(_)) ==
    LET Insert(sorted, x) ==
            LET k == Cardinality({i \in 1..Len(sorted) : Key(sorted[i]) >= Key(x)})
            IN SubSeq(sorted, 1, k) \o <<x>> \o SubSeq(sorted, k + 1, Len(sorted))
    IN FoldLeft(Insert, <<>>, s)

\* A faulty SortByCountDesc: rows with equal counts end up in reverse order
SortByCountDescTiesReversed(s) ==
    LET Insert(sorted, x) ==
            LET k == Cardinality({i \in 1..Len(sorted) : sorted[i].count > x.count})
            IN SubSeq(sorted, 1, k) \o <<x>> \o SubSeq(sorted, k + 1, Len(sorted))
    IN FoldLeft(Insert, <<>>, s)

SortByCountDesc(s) ==
    LET Count(x) == x.count
    IN SortDescBy(s, Count)

\* name.replace(/_/g, ' ')
Spaced(name) ==
    CASE name = "basket_result" -> "basket result"
      [] name = "product_search" -> "product search"
      [] name = "onboarding_started" -> "onboarding started"
      [] name = "onboarding_completed" -> "onboarding completed"
      [] name = "onboarding_list_input_viewed" -> "onboarding list input viewed"
      [] name = "onboarding_processing_viewed" -> "onboarding processing viewed"
      [] OTHER -> name

\* A faulty LatencyMapPut: a row without a processing time opens an entry
LatencyMapPutKeepsEmpty(m, msg) ==
    IF msg.type # "" /\ ~MapHas(m, msg.type)
    THEN Append(m, [key |-> msg.type,
                    times |-> IF msg.ms # 0 THEN <<msg.ms>> ELSE <<>>])
    ELSE IF msg.ms # 0 /\ msg.type # ""
    THEN [i \in 1..Len(m) |->
            IF m[i].key = msg.type
            THEN [m[i] EXCEPT !.times = Append(@, msg.ms)]
            ELSE m[i]]
    ELSE m

LatencyMapPut(m, msg) ==
    IF msg.ms # 0 /\ msg.type # ""
    THEN LET m1 == IF MapHas(m, msg.type) THEN m
                   ELSE Append(m, [key |-> msg.type, times |-> <<>>])
         IN [i \in 1..Len(m1) |->
               IF m1[i].key = msg.type
               THEN [m1[i] EXCEPT !.times = Append(@, msg.ms)]
               ELSE m1[i]]
    ELSE m

\* A faulty p95Index: the largest value is taken as the 95th percentile
p95IndexLast(n) == n - 1

\* A faulty p50Index: the lower median
p50IndexLower(n) == (n - 1) \div 2

\* Math.floor(sorted.length * 0.5), as a 0-based index
p50Index(n) == n \div 2

\* Math.min(Math.floor(sorted.length * 0.95), sorted.length - 1)
p95Index(n) == Min((n * 95) \div 100, n - 1)

\* sorted[i] || 0 for a 0-based index i: undefined outside the array
ElementOrZero(sorted, i) == IF i + 1 \in DOMAIN sorted THEN sorted[i + 1] ELSE 0

\* Math.round(sum / times.length): 0 / 0 is NaN
LatencyAvg(times) ==
    IF Len(times) = 0 THEN NaN ELSE RoundRatio(SumSeq(times), Len(times), 1)

LatencyRow(entry) ==
    LET times == entry.times
        sorted == SortAsc(times)
    IN [type |-> Spaced(entry.key),
        count |-> Len(times),
        avg |-> LatencyAvg(times),
        p50 |-> ElementOrZero(sorted, p50Index(Len(sorted))),
        p95 |-> ElementOrZero(sorted, p95Index(Len(sorted)))]

Latencies(msgs) ==
    LET m == FoldLeft(LatencyMapPut, <<>>, msgs)
    IN SortByCountDesc([i \in 1..Len(m) |-> LatencyRow(m[i])])

\* A query result: { data } with data null when the query failed.
Ok(rows) == [ok |-> TRUE, data |-> rows]
Failed == [ok |-> FALSE, data |-> <<>>]

\* messages?.... || [] 
OrEmpty(res) == IF res.ok THEN res.data ELSE <<>>

\* today and sevenDaysAgo are read at t0, before the queries; the retention
\* bounds are read at t, after them.
UsersStats(events, msgs, t0, t) ==
    [dau |-> UsersDau(events, t0),
     wau |-> UsersWau(events, t0),
     mau |-> UsersMau(events),
     dauWauRatio |-> GuardedRate(UsersDau(events, t0), UsersWau(events, t0), 100),
     avgBasketsPerUser10 |-> GuardedRate(Len(BasketEvents(events)), UsersMau(events), 10),
     avgSavingsPerBasket |-> AvgSavingsPerBasket(events),
     actionRate |-> ActionRate(events),
     w1Retention |-> W1Retention(events, t),
     avgProcessingMs |-> AvgProcessingMs(msgs),
     basketSuccessRate |-> BasketSuccessRate(events)]

UsersDaily(events) == SliceLast(DailyRows(DailyMap(events)), DailyWindow)

\* Everything a pass of the users page writes once its events query returned data.
UsersAggregate(events, msgsRes, t0, t) ==
    [dailyUsers |-> UsersDaily(events),
     weeklyUsers |-> WeeklyRows(events),
     retentionData |-> Cohorts(events, t),
     userSegments |-> Segments(events),
     activationMetrics |-> ActivationMetrics(events),
     acquisitionMetrics |-> AcquisitionMetrics(events),
     latencyData |-> Latencies(OrEmpty(msgsRes)),
     stats |-> UsersStats(events, OrEmpty(msgsRes), t0, t)]

\* useState initial values of the users page
UsersInitial ==
    [dailyUsers |-> <<>>, weeklyUsers |-> <<>>, retentionData |-> <<>>,
     userSegments |-> <<>>,
     activationMetrics |-> [onboardingCompletionRate |-> 0, firstBasketRate |-> 0,
                            ahaEventRate |-> 0],
     acquisitionMetrics |-> [trulyNewUsers |-> 0, returningDeviceUsers |-> 0,
                             newUserConversionRate |-> 0],
     latencyData |-> <<>>,
     stats |-> [dau |-> 0, wau |-> 0, mau |-> 0, dauWauRatio |-> 0,
                avgBasketsPerUser10 |-> 0, avgSavingsPerBasket |-> 0,
                actionRate |-> 0, w1Retention |-> 0, avgProcessingMs |-> 0,
                basketSuccessRate |-> 0]]

---------------------------------------------------------------------------
(* Feature page: FeaturePage.fetchData *)

\* FEATURE_EVENTS[featureName].events, for the features the model visits
FeatureEvents(feature) ==
    CASE feature = "basket" -> {"basket_viewed", "basket_results_displayed"}
      [] feature = "onboarding" ->
            {"onboarding_started", "onboarding_completed",
             "onboarding_list_input_viewed", "onboarding_processing_viewed"}
      [] feature = "demo" -> {"demo_list_selected"}
      [] OTHER -> {}

\* Event breakdown
EventMapPut(m, e) ==
    LET m1 == IF MapHas(m, e.name) THEN m
              ELSE Append(m, [key |-> e.name, count |-> 0, users |-> {}])
    IN [i \in 1..Len(m1) |->
          IF m1[i].key = e.name
          THEN [m1[i] EXCEPT !.count = @ + 1, !.users = @ \cup {e.uid}]
          ELSE m1[i]]

FeatureBreakdown(events) ==
    LET m == FoldLeft(EventMapPut, <<>>, events)
    IN SortByCountDesc([i \in 1..Len(m) |->
          [name |-> m[i].key, count |-> m[i].count,
           users |-> Cardinality(m[i].users)]])

\* Top users
UserMapPut(m, e) ==
    LET m1 == IF MapHas(m, e.uid) THEN m
              ELSE Append(m, [key |-> e.uid, events |-> 0, lastSeen |-> e.ts])
    IN [i \in 1..Len(m1) |->
          IF m1[i].key = e.uid
          THEN [m1[i] EXCEPT !.events = @ + 1,
                             !.lastSeen = IF e.ts > @ THEN e.ts ELSE @]
          ELSE m1[i]]

TopUsersLimit == 10

\* user.slice(0, 8) + '...': the uids of the model are shorter than 8 characters.
\* The rows carry the event count under "count" for the sort.
FeatureTopUsers(events) ==
    LET m == FoldLeft(UserMapPut, <<>>, events)
    IN SliceFirst(SortByCountDesc([i \in 1..Len(m) |->
          [user |-> m[i].key, count |-> m[i].events, lastSeen |-> m[i].lastSeen]]),
          TopUsersLimit)

\* user.slice(...) throws a TypeError when the Map key is null
TopUsersThrows(events) == NullUid \in UidsOf(events)

FeatureStats(events, t) ==
    LET uniqueUsers == Cardinality(UidsOf(events))
        IsToday(e) == DateOf(e.ts) = Today(t)
    IN [totalEvents |-> Len(events),
        uniqueUsers |-> uniqueUsers,
        avgPerUser |-> GuardedRate(Len(events), uniqueUsers, 1),
        todayEvents |-> Len(SelectSeq(events, IsToday))]

FeatureInitial ==
    [dailyData |-> <<>>, eventBreakdown |-> <<>>, topUsers |-> <<>>,
     stats |-> [totalEvents |-> 0, uniqueUsers |-> 0, avgPerUser |-> 0,
                todayEvents |-> 0]]

\* The state after the synchronous part of a pass whose query returned events:
\* setDailyData, setEventBreakdown, then (unless the top-users map throws)
\* setTopUsers, setStats, setLoading(false).
FeatureAggregate(old, events, t) ==
    LET first == [old EXCEPT
                    !.dailyData = SliceLast(DailyRows(DailyMap(events)), DailyWindow),
                    !.eventBreakdown =
                        [i \in 1..Len(FeatureBreakdown(events)) |->
                            [FeatureBreakdown(events)[i] EXCEPT !.name = Spaced(@)]]]
    IN IF TopUsersThrows(events) THEN first
       ELSE [first EXCEPT !.topUsers = FeatureTopUsers(events),
                          !.stats = FeatureStats(events, t)]

---------------------------------------------------------------------------
(* Overview page: Dashboard.fetchData.  The chat_sessions, stores,          *)
(* promotions and store_offerings queries and the values derived from them *)
(* alone (sessionFunnel, storeHealth, responseTypes) are left out.         *)

EVENT_TO_FEATURE(name) ==
    CASE name \in {"browse_page_viewed", "browse_lazy_load"} -> "Browse"
      [] name \in {"chat_page_viewed", "message_sent"} -> "Chat"
      [] name \in {"basket_viewed", "basket_results_displayed"} -> "Basket"
      [] name \in {"shopping_list_viewed", "item_added", "product_added_to_list",
                   "multiple_products_added"} -> "Shopping List"
      [] name \in {"settings_page_viewed", "language_selected"} -> "Settings"
      [] name \in {"onboarding_started", "onboarding_completed"} -> "Onboarding"
      [] name \in {"comparison_started", "product_swapped"} -> "Comparison"
      [] name = "quick_action_tapped" -> "Quick Actions"
      [] name = "demo_list_selected" -> "Demo"
      [] name \in {"app_launch", "splash_load_completed"} -> "App Launch"
      [] OTHER -> "Other"

\* supabase.from('analytics_events').select('firebase_uid, received_at')
\*   .order('received_at', { ascending: true }): no lower bound
AllEvents(rows) == rows

\* userFirstEvent, then the count of first events >= dateFilter
UserFirstEventPut(m, e) ==
    IF MapHas(m, e.uid) THEN m ELSE Append(m, [key |-> e.uid, first |-> e.ts])

NewUsersCount(allEvents, dateFilter) ==
    LET m == FoldLeft(UserFirstEventPut, <<>>, allEvents)
    IN Cardinality({i \in 1..Len(m) : m[i].first >= dateFilter})

\* A faulty DashboardDaily: the rows stay in the order of the query
DashboardDailyUnreversed(events) ==
    SliceLast(DailyRows(DailyMap(events)), DailyWindow)

\* .reverse().slice(-14)
DashboardDaily(events) ==
    SliceLast(Reverse(DailyRows(DailyMap(events))), DailyWindow)

CountMapPut(m, key) ==
    LET m1 == IF MapHas(m, key) THEN m ELSE Append(m, [key |-> key, count |-> 0])
    IN [i \in 1..Len(m1) |->
          IF m1[i].key = key THEN [m1[i] EXCEPT !.count = @ + 1] ELSE m1[i]]

BreakdownLimit == 10

DashboardBreakdown(events) ==
    LET m == FoldLeft(CountMapPut, <<>>, [i \in 1..Len(events) |-> events[i].name])
    IN SliceFirst(SortByCountDesc([i \in 1..Len(m) |->
          [event_name |-> m[i].key, count |-> m[i].count]]), BreakdownLimit)

FeatureMapPut(m, e) ==
    LET feature == EVENT_TO_FEATURE(e.name)
        m1 == IF MapHas(m, feature) THEN m
              ELSE Append(m, [key |-> feature, users |-> {}, events |-> 0])
    IN [i \in 1..Len(m1) |->
          IF m1[i].key = feature
          THEN [m1[i] EXCEPT !.users = @ \cup {e.uid}, !.events = @ + 1]
          ELSE m1[i]]

\* adoption_rate: Math.round((data.users.size / allUsers.size) * 100), no guard
FeatureAdoption(events) ==
    LET m == FoldLeft(FeatureMapPut, <<>>, events)
        allUsers == UidsOf(events)
        Users(x) == x.users
    IN SortDescBy([i \in 1..Len(m) |->
          [feature |-> m[i].key,
           users |-> Cardinality(m[i].users),
           events |-> m[i].events,
           adoption_rate |->
               RoundRatio(Cardinality(m[i].users), Cardinality(allUsers), 100)]],
          Users)

\* A faulty PlatformData: events without a platform are left out
PlatformDataDropsMissing(events) ==
    LET Known(e) == e.platform # ""
        known == SelectSeq(events, Known)
        m == FoldLeft(CountMapPut, <<>>, [i \in 1..Len(known) |-> known[i].platform])
    IN SortByCountDesc([i \in 1..Len(m) |->
          [platform |-> m[i].key, count |-> m[i].count]])

\* const p = e.platform || 'unknown'
PlatformData(events) ==
    LET Platform(e) == IF e.platform = "" THEN "unknown" ELSE e.platform
        m == FoldLeft(CountMapPut, <<>>, [i \in 1..Len(events) |-> Platform(events[i])])
    IN SortByCountDesc([i \in 1..Len(m) |->
          [platform |-> m[i].key, count |-> m[i].count]])

ListActions ==
    <<"shopping_list_viewed", "product_added_to_list", "multiple_products_added",
      "shopping_list_saved", "item_added">>

ListStats(events) ==
    LET all == [i \in 1..Len(ListActions) |->
                  [action |-> ListActions[i],
                   count |-> Len(WithName(events, {ListActions[i]})),
                   users |-> Cardinality(UidsOf(WithName(events, {ListActions[i]})))]]
        Used(s) == s.count > 0
    IN SelectSeq(all, Used)

OnboardingRate(events) ==
    GuardedRate(Cardinality(UidsOf(WithName(events, {"onboarding_completed"}))),
                Cardinality(UidsOf(WithName(events, {"onboarding_started"}))), 100)

DashboardInitial ==
    [dailyStats |-> <<>>, eventBreakdown |-> <<>>, featureAdoption |-> <<>>,
     platformData |-> <<>>, onboardingRate |-> 0,
     todayStats |-> [users |-> 0, events |-> 0, messages |-> 0],
     totalUsers |-> 0, newUsers |-> 0, avgProcessingMs |-> 0,
     totalSavings |-> 0, basketsGenerated |-> 0, listStats |-> <<>>]

\* if (processingTimes.length > 0) setAvgProcessingMs(...)
DashboardAvgProcessingMs(old, msgs) ==
    IF Len(ProcessingTimes(msgs)) > 0 THEN AvgProcessingMs(msgs) ELSE old

\* The state after the synchronous part of a pass.  events, messages and
\* allEvents are read through ?. and || [], so a failed query counts as empty.
DashboardAggregate(old, eventsRes, msgsRes, allRes, dateFilter, t) ==
    LET events == OrEmpty(eventsRes)
        msgs == OrEmpty(msgsRes)
        IsToday(x) == DateOf(x.ts) = Today(t)
    IN [dailyStats |-> DashboardDaily(events),
        eventBreakdown |-> DashboardBreakdown(events),
        featureAdoption |-> FeatureAdoption(events),
        platformData |-> PlatformData(events),
        onboardingRate |-> OnboardingRate(events),
        todayStats |-> [users |-> Cardinality(UidsOf(SelectSeq(events, IsToday))),
                        events |-> Len(SelectSeq(events, IsToday)),
                        messages |-> Len(SelectSeq(msgs, IsToday))],
        totalUsers |-> Cardinality(UidsOf(events)),
        newUsers |-> NewUsersCount(OrEmpty(allRes), dateFilter),
        avgProcessingMs |-> DashboardAvgProcessingMs(old.avgProcessingMs, msgs),
        totalSavings |-> SavingsOf(events).total,
        basketsGenerated |-> Len(BasketEvents(events)),
        listStats |-> ListStats(events)]

---------------------------------------------------------------------------
(* Onboarding page: OnboardingPage.fetchData *)

ONBOARDING_STEPS ==
    <<[event |-> "app_launch", shortName |-> "Launch"],
      [event |-> "splash_load_completed", shortName |-> "Splash"],
      [event |-> "onboarding_started", shortName |-> "Started"],
      [event |-> "demo_list_selected", shortName |-> "Input"],
      [event |-> "comparison_started", shortName |-> "Compare"],
      [event |-> "onboarding_completed", shortName |-> "Done"]>>

StepCount == Len(ONBOARDING_STEPS)

\* eventCounts: one entry per step, filled by events?.forEach
EventCountsPut(m, e) ==
    [i \in 1..Len(m) |->
        IF m[i].key = e.name
        THEN [m[i] EXCEPT !.count = @ + 1, !.users = @ \cup {e.uid}]
        ELSE m[i]]

EventCounts(events) ==
    FoldLeft(EventCountsPut,
             [i \in 1..StepCount |->
                 [key |-> ONBOARDING_STEPS[i].event, count |-> 0, users |-> {}]],
             events)

\* A faulty drop-off: raised to 0 when the step gains users
DropoffClamped(prevUsers, users) == Max(0, prevUsers - users)

\* const dropoff = prevData ? prevData.users.size - data.users.size : 0
Dropoff(prevUsers, users) == prevUsers - users

\* A faulty percentage: cut off instead of rounded
DropoffPctTruncated(dropoff, prevUsers) ==
    IF prevUsers > 0 THEN <<(100 * dropoff) \div prevUsers, "%">> ELSE <<>>

\* ((dropoff / prevData.users.size) * 100).toFixed(0) + '%', or ''.
\* The string "n%" is the pair <<n, "%">>, the empty string is <<>>.
DropoffPct(dropoff, prevUsers) ==
    IF prevUsers > 0 THEN <<ToFixed0Ratio(dropoff, prevUsers, 100), "%">> ELSE <<>>

Funnel(events) ==
    LET counts == EventCounts(events)
    IN [i \in 1..StepCount |->
          LET users == Cardinality(counts[i].users)
              prevUsers == IF i > 1 THEN Cardinality(counts[i - 1].users) ELSE 0
              dropoff == IF i > 1 THEN Dropoff(prevUsers, users) ELSE 0
          IN [shortName |-> ONBOARDING_STEPS[i].shortName,
              value |-> counts[i].count,
              users |-> users,
              dropoff |-> dropoff,
              dropoffPct |-> IF i > 1 THEN DropoffPct(dropoff, prevUsers) ELSE <<>>]]

\* A faulty scan: pct >= biggestDropoffPct, the last of equal transitions wins
BiggestStepKeepsLast(acc, i, funnel) ==
    IF i > 1 /\ funnel[i].dropoff # 0 /\ funnel[i - 1].users > 0
       /\ funnel[i].dropoff * acc.den >= acc.num * funnel[i - 1].users
    THEN [num |-> funnel[i].dropoff, den |-> funnel[i - 1].users,
          label |-> <<funnel[i - 1].shortName, funnel[i].shortName>>]
    ELSE acc

\* Find biggest dropoff.  pct = (step.dropoff / funnel[i-1].users) * 100 is kept
\* as the fraction num / den; the label `${a} -> ${b}` is the pair <<a, b>>.
\* if (i > 0 && step.dropoff && funnel[i-1].users > 0) if (pct > biggestDropoffPct)
BiggestStep(acc, i, funnel) ==
    IF i > 1 /\ funnel[i].dropoff # 0 /\ funnel[i - 1].users > 0
       /\ funnel[i].dropoff * acc.den > acc.num * funnel[i - 1].users
    THEN [num |-> funnel[i].dropoff, den |-> funnel[i - 1].users,
          label |-> <<funnel[i - 1].shortName, funnel[i].shortName>>]
    ELSE acc

BiggestDropoff(funnel) ==
    LET Step(acc, i) == BiggestStep(acc, i, funnel)
    IN FoldLeft(Step, [num |-> 0, den |-> 1, label |-> <<>>],
                [i \in 1..Len(funnel) |-> i])

\* Demo list stats
DemoListStats(events) ==
    LET Keyed(e) == e.name = "demo_list_selected" /\ e.props.list_key # ""
        hit == SelectSeq(events, Keyed)
        m == FoldLeft(CountMapPut, <<>>, [i \in 1..Len(hit) |-> hit[i].props.list_key])
    IN SortByCountDesc([i \in 1..Len(m) |-> [list |-> m[i].key, count |-> m[i].count]])

\* Daily onboarding data
OnboardingDailyPut(m, e) ==
    LET date == DateOf(e.ts)
        m1 == IF MapHas(m, date) THEN m
              ELSE Append(m, [key |-> date, started |-> {}, completed |-> {}])
    IN [i \in 1..Len(m1) |->
          IF m1[i].key = date
          THEN [m1[i] EXCEPT
                  !.started = IF e.name = "onboarding_started" THEN @ \cup {e.uid} ELSE @,
                  !.completed = IF e.name = "onboarding_completed" THEN @ \cup {e.uid} ELSE @]
          ELSE m1[i]]

OnboardingDaily(events) ==
    LET m == FoldLeft(OnboardingDailyPut, <<>>, events)
    IN SliceLast([i \in 1..Len(m) |->
          [date |-> FormatMMMdd(m[i].key),
           started |-> Cardinality(m[i].started),
           completed |-> Cardinality(m[i].completed),
           rate |-> GuardedRate(Cardinality(m[i].completed),
                                Cardinality(m[i].started), 100)]], DailyWindow)

OnboardingStats(events) ==
    LET counts == EventCounts(events)
        totalStarted == Cardinality(counts[3].users)
        totalCompleted == Cardinality(counts[6].users)
        biggest == BiggestDropoff(Funnel(events))
    IN [totalStarted |-> totalStarted,
        totalCompleted |-> totalCompleted,
        overallRate |-> GuardedRate(totalCompleted, totalStarted, 100),
        biggestDropoff |-> biggest.label,
        biggestDropoffPct |-> RoundRatio(biggest.num, biggest.den, 100)]

OnboardingInitial ==
    [funnelData |-> <<>>, dailyData |-> <<>>, demoListStats |-> <<>>,
     stats |-> [totalStarted |-> 0, totalCompleted |-> 0, overallRate |-> 0,
                biggestDropoff |-> <<>>, biggestDropoffPct |-> 0]]

\* events is read through ?., so a failed query counts as empty
OnboardingAggregate(eventsRes) ==
    LET events == OrEmpty(eventsRes)
    IN [funnelData |-> Funnel(events),
        dailyData |-> OnboardingDaily(events),
        demoListStats |-> DemoListStats(events),
        stats |-> OnboardingStats(events)]

---------------------------------------------------------------------------
(* The pages as state machines.  A pass is one call of fetchData: it sets    *)
(* the loading flag and computes its date filter from the timeRange of the  *)
(* render that created it, waits for the store, and then aggregates and     *)
(* writes the page state in one synchronous run.                            *)

\* A faulty clearInterval: the interval stays installed
clearIntervalKeeps(timers, i) == timers

\* return () => clearInterval(interval)
clearInterval(timers, i) == timers \ {i}

\* const interval = setInterval(fetchData, 5 * 60 * 1000), in the effect that
\* starts pass id with the time range range
setInterval(timers, id, range) == timers \cup {[id |-> id, range |-> range]}

\* the interval of the effect that ran last
LastInterval(timers) == {i \in timers : \A j \in timers : j.id <= i.id}

RECURSIVE clearAll(_, _)
clearAll(timers, S) ==
    IF S = {} THEN timers
    ELSE LET i == CHOOSE x \in S : TRUE
         IN clearAll(clearInterval(timers, i), S \ {i})

Pages ==
    {[path |-> "overview", feature |-> ""],
     [path |-> "users", feature |-> ""],
     [path |-> "onboarding", feature |-> ""],
     [path |-> "feature", feature |-> "onboarding"]}

Initial(pg) ==
    CASE pg.path = "overview" -> DashboardInitial
      [] pg.path = "users" -> UsersInitial
      [] pg.path = "onboarding" -> OnboardingInitial
      [] pg.path = "feature" -> FeatureInitial

NoLocals == [events |-> <<>>, dailyMap |-> <<>>, ran |-> FALSE]

NewPass(id, range, t) ==
    [id |-> id, range |-> range, started |-> t,
     dateFilter |-> getDateFilter(range, t),
     phase |-> "await", events |-> Failed, msgs |-> Failed, all |-> Failed,
     overlapped |-> FALSE]

NoPass == NewPass(0, "30d", 0)

\* chat_messages of the users page: .order('created_at', desc).limit(500), no
\* lower bound; of the overview page: .gte('created_at', dateFilter)
MessagesLimit == 500

MessagesQuery(pg, rows, dateFilter) ==
    IF pg.path = "users" THEN SliceFirst(Reverse(rows), MessagesLimit)
    ELSE LET InRange(m) == m.ts >= dateFilter
         IN SelectSeq(rows, InRange)

EventsQuery(pg, rows, dateFilter) ==
    CASE pg.path = "overview" -> EventsSince(rows, dateFilter, FALSE)
      [] pg.path = "feature" ->
            EventsNamed(EventsSince(rows, dateFilter, TRUE), FeatureEvents(pg.feature))
      [] OTHER -> EventsSince(rows, dateFilter, TRUE)

\* fetchData() up to its first await.  overlapped records (history) that the
\* pass was in flight together with another one.
StartPass(range) ==
    /\ nextId <= MaxPasses
    /\ passes' = {[q EXCEPT !.overlapped = TRUE] : q \in passes} \cup
                  {[NewPass(nextId, range, now) EXCEPT !.overlapped = (passes # {})]}
    /\ nextId' = nextId + 1
    /\ loading' = TRUE

\* The store answers the queries of pass p; each answer is data or a failure.
Respond(p) ==
    /\ p \in passes
    /\ p.phase = "await"
    /\ \E okE \in BOOLEAN,
          okM \in (IF page.path \in {"users", "overview"} THEN BOOLEAN ELSE {FALSE}),
          okA \in (IF page.path = "overview" THEN BOOLEAN ELSE {FALSE}) :
          passes' = (passes \ {p}) \cup
             {[p EXCEPT
                 !.phase = "ready",
                 !.events = IF okE THEN Ok(EventsQuery(page, store, p.dateFilter))
                            ELSE Failed,
                 !.msgs = IF okM THEN Ok(MessagesQuery(page, messages, p.dateFilter))
                          ELSE Failed,
                 !.all = IF okA THEN Ok(AllEvents(store)) ELSE Failed]}
    /\ UNCHANGED <<gate, latency, page, now, store, messages, timeRange, nextId, timer,
                   display, loading, locals, arrivals, done>>

\* if (!events) { setLoading(false); return; }  (users and feature pages)
ReturnsEarly(pg, p) == pg.path \in {"users", "feature"} /\ ~p.events.ok

\* an exception leaves fetchData before setLoading(false); the overview and
\* onboarding pages reset the flag in finally
LeavesLoading(pg, p) ==
    pg.path = "feature" /\ p.events.ok /\ TopUsersThrows(p.events.data)

Written(pg, old, p, t) ==
    IF ReturnsEarly(pg, p) THEN old
    ELSE CASE pg.path = "users" -> UsersAggregate(p.events.data, p.msgs, p.started, t)
           [] pg.path = "feature" -> FeatureAggregate(old, p.events.data, p.started)
           [] pg.path = "overview" ->
                 DashboardAggregate(old, p.events, p.msgs, p.all, p.dateFilter, p.started)
           [] pg.path = "onboarding" -> OnboardingAggregate(p.events)

\* The rest of fetchData, after the awaits
Complete(p) ==
    /\ p \in passes
    /\ p.phase = "ready"
    /\ passes' = passes \ {p}
    /\ display' = Written(page, display, p, now)
    /\ loading' = IF LeavesLoading(page, p) THEN loading ELSE FALSE
    /\ locals' = IF ReturnsEarly(page, p) \/ page.path = "onboarding" THEN NoLocals
                 ELSE [events |-> OrEmpty(p.events),
                       dailyMap |-> DailyMap(OrEmpty(p.events)),
                       ran |-> TRUE]
    /\ done' = p
    /\ UNCHANGED <<gate, latency, page, now, store, messages, timeRange, nextId, timer, arrivals>>

\* The range selector: setTimeRange(r), the re-render, the effect's cleanup
\* (clearInterval) and the effect itself (fetchData, setInterval). The page
\* renders the selector only while loading is false (if (loading) return the
\* Loading... screen), so a range is selected only then.
SetTimeRange(r) ==
    /\ ~loading
    /\ r # timeRange
    /\ timeRange' = r
    /\ StartPass(r)
    /\ timer' = IF page.path = "overview"
                THEN setInterval(clearAll(timer, LastInterval(timer)), nextId, r)
                ELSE timer
    /\ UNCHANGED <<gate, latency, page, now, store, messages, display, locals, arrivals, done>>

\* setInterval(fetchData, 5 * 60 * 1000) fires: fetchData of the render that
\* installed the interval
Refresh ==
    /\ \E i \in timer : StartPass(i.range)
    /\ UNCHANGED <<gate, latency, page, now, store, messages, timeRange, timer, display,
                   locals, arrivals, done>>

\* The app records an event: a new row, received in the latest tick
Ingest(e) ==
    /\ arrivals < MaxArrivals
    /\ arrivals' = arrivals + 1
    /\ store' = SelectSeq(store, LAMBDA x : x.ts # NoTs) \o <<e>>
                  \o SelectSeq(store, LAMBDA x : x.ts = NoTs)
    /\ UNCHANGED <<gate, latency, page, now, messages, timeRange, passes, nextId, timer,
                   display, loading, locals, done>>

\* The latency table of the users page: the effect on latencyTimeRange.
LatencyRanges == {"24h", "7d", "30d", "all"}

NoDateFilter == 0 - 2              \* dateFilter = null: the query has no lower bound

\* let dateFilter = null; if (latencyTimeRange === '24h') ... subDays(new Date(), n)
latencyDateFilter(range, t) ==
    CASE range = "24h" -> subDays(t, 1)
      [] range = "7d" -> subDays(t, 7)
      [] range = "30d" -> subDays(t, 30)
      [] OTHER -> NoDateFilter

LatencyLimit == 1000

\* .from('chat_messages')...: gte('created_at', dateFilter) if there is one,
\* .order('created_at', { ascending: false }).limit(1000)
LatencyQuery(rows, dateFilter) ==
    LET InRange(m) == dateFilter = NoDateFilter \/ m.ts >= dateFilter
    IN SliceFirst(Reverse(SelectSeq(rows, InRange)), LatencyLimit)

\* useState('30d'), useState(false), no call in flight
InitialLatency ==
    [range |-> "30d", loading |-> FALSE, fetches |-> {}, nextId |-> 1,
     ok |-> TRUE, ran |-> FALSE]

\* fetchLatency() up to its await
StartLatency(l, id, range, t) ==
    [l EXCEPT !.range = range,
              !.loading = TRUE,
              !.fetches = @ \cup {[id |-> id, range |-> range,
                                   dateFilter |-> latencyDateFilter(range, t)]},
              !.nextId = id + 1]

\* The range selector of the latency table: setLatencyTimeRange(r), the
\* re-render and the effect (fetchLatency). The selector is part of the page
\* that is rendered only while loading is false.
SetLatencyTimeRange(r) ==
    /\ page.path = "users"
    /\ ~loading
    /\ r # latency.range
    /\ latency.nextId <= MaxLatencyFetches
    /\ latency' = StartLatency(latency, latency.nextId, r, now)
    /\ UNCHANGED <<gate, page, now, store, messages, timeRange, passes, nextId, timer,
                   display, loading, locals, arrivals, done>>

\* The store answers the query of fetchLatency call f with data or a
\* failure, and the rest of fetchLatency runs
CompleteLatency(f) ==
    /\ f \in latency.fetches
    /\ \E okL \in BOOLEAN :
          /\ display' = [display EXCEPT !.latencyData =
                            IF okL THEN Latencies(LatencyQuery(messages, f.dateFilter))
                            ELSE <<>>]
          /\ latency' = [latency EXCEPT !.fetches = @ \ {f},
                                        !.loading = FALSE,
                                        !.ok = okL,
                                        !.ran = TRUE]
    /\ UNCHANGED <<gate, page, now, store, messages, timeRange, passes, nextId, timer,
                   loading, locals, arrivals, done>>

\* Time passes: new Date() returns a later instant
Tick ==
    /\ now < 35 * TicksPerDay + 1 + MaxTicks
    /\ now' = now + 1
    /\ UNCHANGED <<gate, latency, page, store, messages, timeRange, passes, nextId, timer,
                   display, loading, locals, arrivals, done>>

---------------------------------------------------------------------------
(* Initial states.  The ticks the stored rows of the model lie in: *)

Now0 == 35 * TicksPerDay + 1
DaysAgo(n) == Now0 - 1 - n * TicksPerDay

ModelRanges == {"24h", "30d"}

\* All lists of at most n rows of S that an ORDER BY received_at ASC returns
SortedLists(S, n) ==
    {rows \in UNION {[1..k -> S] : k \in 0..n} : IsAscending(rows)}

(* The access gate: middleware and config.matcher *)

\* A pathname is the sequence of its pieces: "/" and "." are pieces of their
\* own, the text between them is one piece each.
Root == <<"/">>
UsersPath == <<"/", "users">>
OnboardingPath == <<"/", "onboarding">>
AccessDenied == <<"/", "access-denied">>

SECRET_KEY == "spaartje2024"

\* searchParams.get('key') of a URL without the parameter (null) and
\* cookies.get('dashboard_key')?.value of a request without the cookie
\* (undefined): neither is === to a string.
NoValue == "<absent>"

startsWith(pathname, prefix) ==
    /\ Len(prefix) <= Len(pathname)
    /\ SubSeq(pathname, 1, Len(prefix)) = prefix

includes(pathname, piece) == \E i \in 1..Len(pathname) : pathname[i] = piece

\* '/((?!_next/static|_next/image|favicon.ico).*)': the middleware runs for
\* every pathname but those under /_next/static, /_next/image and /favicon.ico.
matcher(pathname) ==
    /\ startsWith(pathname, <<"/">>)
    /\ ~startsWith(pathname, <<"/", "_next", "/", "static">>)
    /\ ~startsWith(pathname, <<"/", "_next", "/", "image">>)
    /\ ~startsWith(pathname, <<"/", "favicon", ".", "ico">>)

NextResponseNext == [kind |-> "next", location |-> <<>>, cookie |-> NoValue]

\* NextResponse.redirect(new URL(location, request.url)): the location keeps no
\* query string; cookie is the dashboard_key the response sets, if any.
NextResponseRedirect(location, cookie) ==
    [kind |-> "redirect", location |-> location, cookie |-> cookie]

middleware(request) ==
    IF \/ startsWith(request.pathname, <<"/", "_next">>)
       \/ startsWith(request.pathname, <<"/", "api">>)
       \/ includes(request.pathname, ".")
    THEN NextResponseNext
    ELSE IF request.key = SECRET_KEY
    THEN NextResponseRedirect(request.pathname, SECRET_KEY)
    ELSE IF request.cookie = SECRET_KEY
    THEN NextResponseNext
    ELSE IF request.pathname # AccessDenied
    THEN NextResponseRedirect(AccessDenied, NoValue)
    ELSE NextResponseNext

Request(pathname, key, cookie) == [pathname |-> pathname, key |-> key, cookie |-> cookie]

NoRequest ==
    [request |-> Request(Root, NoValue, NoValue), first |-> Request(Root, NoValue, NoValue),
     redirects |-> 0, status |-> "idle"]

\* The requests a client sends: the pages, the denial page, a feature page whose
\* name holds a dot, an api route, assets; with no key, a wrong key or the key,
\* in the URL and in the cookie.
GatePaths ==
    {Root, UsersPath, OnboardingPath, AccessDenied,
     <<"/", "feature", "/", "chat">>,
     <<"/", "feature", "/", "chat", ".", "v2">>,
     <<"/", "api", "/", "health">>,
     <<"/", "_next", "/", "static", "/", "main", ".", "js">>,
     <<"/", "favicon", ".", "ico">>}

GateKeys == {NoValue, "letmein", SECRET_KEY}

\* The client asks for a URL.
Navigate(pathname, key, cookie) ==
    /\ gate.status # "pending"
    /\ gate' = [request |-> Request(pathname, key, cookie),
                first |-> Request(pathname, key, cookie),
                redirects |-> 0, status |-> "pending"]
    /\ UNCHANGED <<latency, page, now, store, messages, timeRange, passes, nextId, timer,
                   display, loading, locals, arrivals, done>>

\* The request is answered: served without the middleware where the matcher
\* excludes the pathname, served on NextResponse.next(), and on a redirect the
\* client stores the cookie of the response and asks for the location.
Handle ==
    /\ gate.status = "pending"
    /\ LET response == IF matcher(gate.request.pathname) THEN middleware(gate.request)
                       ELSE NextResponseNext
       IN  gate' =
             IF response.kind = "next" THEN [gate EXCEPT !.status = "served"]
             ELSE IF gate.redirects >= MaxRedirects
             THEN [gate EXCEPT !.status = "too many redirects"]
             ELSE [gate EXCEPT
                     !.request = Request(response.location, NoValue,
                                         IF response.cookie # NoValue THEN response.cookie
                                         ELSE gate.request.cookie),
                     !.redirects = gate.redirects + 1]
    /\ UNCHANGED <<latency, page, now, store, messages, timeRange, passes, nextId, timer,
                   display, loading, locals, arrivals, done>>

Mounted(pg) ==
    /\ page = pg
    /\ now = Now0
    /\ timeRange = "30d"
    /\ passes = {NewPass(1, "30d", Now0)}
    /\ nextId = 2
    /\ timer = IF pg.path = "overview" THEN setInterval({}, 1, "30d") ELSE {}
    /\ display = Initial(pg)
    /\ loading = TRUE
    /\ locals = NoLocals
    /\ arrivals = 0
    /\ done = NoPass
    /\ latency = IF pg.path = "users" THEN StartLatency(InitialLatency, 1, "30d", Now0)
                 ELSE InitialLatency
    /\ gate = NoRequest

(* Spec: the pages under overlapping passes, over a small store *)

BaseStores ==
    {<<Ev(DaysAgo(10), "u1", "onboarding_started"),
       Ev(DaysAgo(3), "u2", "onboarding_started")>>}

Arrivals ==
    {Ev(DaysAgo(0), "u1", "onboarding_completed")}

BaseMessages ==
    {<<Msg(DaysAgo(3), "basket_result", 200)>>}

Init ==
    /\ \E pg \in Pages : Mounted(pg)
    /\ store \in BaseStores
    /\ messages \in BaseMessages

Next ==
    \/ \E p \in passes : Respond(p)
    \/ \E p \in passes : Complete(p)
    \/ \E r \in ModelRanges : SetTimeRange(r)
    \/ Refresh
    \/ \E e \in Arrivals : Ingest(e)

Spec == Init /\ [][Next]_vars

---------------------------------------------------------------------------
(* SpecAgg: one pass of each page over every short list of rows drawn from  *)
(* the page's alphabet.  The alphabets hold rows of today, of earlier days *)
(* and weeks, rows without user id and rows without timestamp.             *)

UsersAlphabet ==
    {EvS(DaysAgo(0), "u1", "basket_results_displayed", 400),
     EvS(DaysAgo(8), "u2", "basket_results_displayed", 0),
     Ev(DaysAgo(0), "u1", "comparison_started"),
     Ev(DaysAgo(8) + 1, "u1", "product_swapped"),
     Ev(subDays(Now0, 7), "u1", "onboarding_started"),
     Ev(DaysAgo(0), "u2", "onboarding_completed"),
     Ev(DaysAgo(1) + 1, "u1", "onboarding_completed"),
     EvA(DaysAgo(8), "u2", TRUE, FALSE),
     EvA(DaysAgo(0), "u2", FALSE, TRUE),
     Ev(DaysAgo(20), "u2", "app_launch"),
     Ev(DaysAgo(0), NullUid, "app_launch"),
     Ev(NoTs, "u1", "app_launch")}

OverviewAlphabet ==
    {EvP(DaysAgo(0), "u1", "app_launch", "ios"),
     EvP(DaysAgo(0), "u2", "app_launch", ""),
     [EvP(DaysAgo(1), "u1", "basket_results_displayed", "android")
         EXCEPT !.props.savings_cents = 250],
     Ev(DaysAgo(1), "u2", "receipt_scan_started"),
     Ev(DaysAgo(8), "u1", "onboarding_started"),
     Ev(DaysAgo(0), "u1", "onboarding_completed"),
     Ev(DaysAgo(33), "u1", "item_added"),
     Ev(DaysAgo(0), NullUid, "item_added"),
     Ev(NoTs, "u2", "item_added")}

OnboardingAlphabet ==
    {Ev(DaysAgo(2), "u1", "app_launch"),
     Ev(DaysAgo(2), "u2", "app_launch"),
     Ev(DaysAgo(2) + 1, "u3", "app_launch"),
     Ev(DaysAgo(1), "u1", "splash_load_completed"),
     Ev(DaysAgo(1), "u1", "onboarding_started"),
     Ev(DaysAgo(1), "u2", "onboarding_started"),
     EvL(DaysAgo(1) + 1, "u1", "weekly"),
     Ev(DaysAgo(1) + 1, "u1", "comparison_started"),
     Ev(DaysAgo(1) + 1, "u1", "onboarding_completed"),
     Ev(DaysAgo(0), NullUid, "onboarding_completed"),
     Ev(NoTs, "u3", "app_launch")}

FeatureAlphabet ==
    {Ev(DaysAgo(1), "u1", "onboarding_started"),
     Ev(DaysAgo(1), "u2", "onboarding_started"),
     Ev(DaysAgo(0), "u1", "onboarding_started"),
     Ev(DaysAgo(0), "u1", "onboarding_completed"),
     Ev(DaysAgo(0), "u2", "onboarding_list_input_viewed"),
     Ev(DaysAgo(0), NullUid, "onboarding_started"),
     Ev(DaysAgo(0), "u2", "app_launch"),
     Ev(NoTs, "u1", "onboarding_started")}

Alphabet(pg) ==
    CASE pg.path = "users" -> UsersAlphabet
      [] pg.path = "overview" -> OverviewAlphabet
      [] pg.path = "onboarding" -> OnboardingAlphabet
      [] pg.path = "feature" -> FeatureAlphabet

MessageLists(pg) ==
    IF pg.path \in {"users", "overview"}
    THEN {<<>>,
          <<Msg(DaysAgo(1), "basket_result", 100), Msg(DaysAgo(0), "basket_result", 301),
            Msg(DaysAgo(0), "", 50), Msg(DaysAgo(0), "product_search", 0)>>}
    ELSE {<<>>}

InitAgg ==
    \E pg \in Pages :
       /\ Mounted(pg)
       /\ store \in SortedLists(Alphabet(pg),
                                IF pg.path = "onboarding" THEN MaxFunnelEvents
                                ELSE MaxEvents)
       /\ messages \in MessageLists(pg)

NextAgg ==
    \/ \E p \in passes : Respond(p)
    \/ \E p \in passes : Complete(p)

SpecAgg == InitAgg /\ [][NextAgg]_vars

\* The users page over the events of three users: one with up to
\* MaxUserEvents events, two with event counts on the lower thresholds.
Times(e, n) == [i \in 1..n |-> e]

SecondUserCounts == {20}
ThirdUserCounts == {5}

InitSeg ==
    /\ Mounted([path |-> "users", feature |-> ""])
    /\ \E n \in 0..MaxUserEvents, m \in SecondUserCounts, k \in ThirdUserCounts :
          store = Times(Ev(DaysAgo(1), "u1", "app_launch"), n)
                     \o Times(EvS(DaysAgo(0), "u2", "basket_results_displayed", 100), m)
                     \o Times(Ev(DaysAgo(0), "u3", "item_added"), k)
    /\ messages = <<>>

SpecSeg == InitSeg /\ [][NextAgg]_vars

\* The users page over an empty event table and a chat_messages table of up
\* to MaxMessages basket results, the slow ones recorded first, with or
\* without rows of another response type and rows the latency loop skips.
MaxMessages == 21

OtherMessages ==
    {<<>>,
     <<Msg(DaysAgo(1), "product_search", 50), Msg(DaysAgo(1), "product_search", 40),
       Msg(DaysAgo(1), "", 70), Msg(DaysAgo(1), "basket_result", 0)>>,
     <<Msg(DaysAgo(1), "basket_result", 0)>>}

InitLat ==
    /\ Mounted([path |-> "users", feature |-> ""])
    /\ store = <<>>
    /\ \E n \in 0..MaxMessages, slow \in 0..MaxMessages, other \in OtherMessages :
          /\ slow <= n
          /\ messages = other
                          \o Times(Msg(DaysAgo(0), "basket_result", 300), slow)
                          \o Times(Msg(DaysAgo(0), "basket_result", 100), n - slow)

SpecLat == InitLat /\ [][NextAgg]_vars

\* Every page over a table with events on up to MaxDays days, every day or
\* every second day, one or two users a day, the earliest day first.
MaxDays == 15
FirstDays == {0, 1}
DaySteps == {1, 2}

DayEvents(k, twice) ==
    IF twice
    THEN <<Ev(DaysAgo(k), "u1", "onboarding_started"),
           Ev(DaysAgo(k), "u2", "onboarding_started")>>
    ELSE <<Ev(DaysAgo(k), "u1", "onboarding_started")>>

\* events of n days, the latest of them first days ago
RECURSIVE DaysTable(_, _, _, _)
DaysTable(n, first, step, twice) ==
    IF n = 0 THEN <<>>
    ELSE DaysTable(n - 1, first + step, step, twice) \o DayEvents(first, twice)

InitDaily ==
    \E pg \in Pages :
       /\ Mounted(pg)
       /\ \E n \in 0..MaxDays, first \in FirstDays, step \in DaySteps, twice \in BOOLEAN :
             store = DaysTable(n, first, step, twice)
       /\ messages = <<>>

SpecDaily == InitDaily /\ [][NextAgg]_vars

\* The pages under a running clock: the passes of the mount and of a change
\* of range, over a table of at most MaxClockEvents rows.
MaxClockEvents == 3

ClockAlphabet ==
    {Ev(DaysAgo(0), "u1", "onboarding_started"),
     Ev(subDays(Now0, 7), "u2", "onboarding_started"),
     Ev(subDays(Now0, 14), "u1", "onboarding_started")}

InitClock ==
    /\ \E pg \in Pages : Mounted(pg)
    /\ store \in SortedLists(ClockAlphabet, MaxClockEvents)
    /\ messages = <<>>

NextClock ==
    \/ \E p \in passes : Respond(p)
    \/ \E p \in passes : Complete(p)
    \/ \E r \in ModelRanges : SetTimeRange(r)
    \/ Tick

SpecClock == InitClock /\ [][NextClock]_vars

\* The users page with its two effects, fetchData and fetchLatency, over
\* chat messages of different ages.
LatencyMessages ==
    {<<Msg(DaysAgo(33), "basket_result", 400), Msg(DaysAgo(3), "basket_result", 200),
       Msg(DaysAgo(0), "product_search", 100)>>}

InitLatency ==
    /\ Mounted([path |-> "users", feature |-> ""])
    /\ store \in BaseStores
    /\ messages \in LatencyMessages

NextLatency ==
    \/ \E p \in passes : Respond(p)
    \/ \E p \in passes : Complete(p)
    \/ \E r \in ModelRanges : SetTimeRange(r)
    \/ \E r \in LatencyRanges : SetLatencyTimeRange(r)
    \/ \E f \in latency.fetches : CompleteLatency(f)

SpecLatency == InitLatency /\ [][NextLatency]_vars

\* The overview page with its interval, over empty tables: passes started by
\* the mount, by changes of range and by the timer.
InitTimer ==
    /\ Mounted([path |-> "overview", feature |-> ""])
    /\ store = <<>>
    /\ messages = <<>>

NextTimer ==
    \/ \E p \in passes : Respond(p)
    \/ \E p \in passes : Complete(p)
    \/ \E r \in ModelRanges : SetTimeRange(r)
    \/ Refresh

SpecTimer == InitTimer /\ [][NextTimer]_vars

---------------------------------------------------------------------------
(* The claims *)

Completed == done.id # 0
Input == OrEmpty(done.events)          \* the rows the last pass aggregated

DatesOf(events) == {DateOf(events[i].ts) : i \in 1..Len(events)}
OnDate(events, d) ==
    LET Hit(e) == DateOf(e.ts) = d
    IN SelectSeq(events, Hit)

\* the k-th smallest element of a set of numbers
Nth(S, k) == CHOOSE d \in S : Cardinality({x \in S : x < d}) = k - 1

\* the daily series the page shows
DailyShown ==
    CASE page.path = "users" -> display.dailyUsers
      [] page.path = "feature" -> display.dailyData
      [] page.path = "overview" -> display.dailyStats
      [] OTHER -> <<>>

\* C1: on the users, feature and overview pages, every daily bucket shown
\* after a pass reports as its unique-user count the number of distinct
\* firebase_uid values among the events of that day (a user with several
\* events on one day counts once).
C1_UniqueUsersPerBucket ==
    locals.ran =>
        LET dates == DatesOf(locals.events)
            n == Len(DailyShown)
            skipped == Cardinality(dates) - n
        IN /\ n = Min(DailyWindow, Cardinality(dates))
           /\ \A i \in 1..n :
                 DailyShown[i].users =
                     Cardinality(UidsOf(OnDate(locals.events, Nth(dates, skipped + i))))

C1_Witness ==
    /\ locals.ran
    /\ Len(DailyShown) >= 2
    /\ \E i \in 1..Len(DailyShown) :
          DailyShown[i].users = 1 /\ DailyShown[i].events >= 2

\* C2: the event counts of the daily buckets (before the trimming to the
\* last 14) add up to the number of events passed in, each event being
\* counted in the bucket of its own day and in no other.
C2_BucketCountsConserved ==
    locals.ran =>
        LET m == locals.dailyMap
        IN /\ SumSeq([i \in 1..Len(m) |-> m[i].events]) = Len(locals.events)
           /\ \A i, j \in 1..Len(m) : m[i].key = m[j].key => i = j
           /\ \A i \in 1..Len(m) : m[i].events = Len(OnDate(locals.events, m[i].key))

C2_Witness ==
    /\ locals.ran
    /\ Len(locals.dailyMap) >= 2
    /\ Len(locals.events) > Len(locals.dailyMap)

\* every pass that was started has completed, and one of them got its events
Settled == passes = {} /\ Completed /\ done.events.ok

\* C3: when passes of a page overlapped, the page shows, once all of them
\* have completed, what the pass that completed last computed, whichever
\* was requested first.
C3_LastCompletedWins ==
    (Settled /\ done.overlapped) =>
        display = Written(page, Initial(page), done, now)

\* the pass that completed last, had it asked for the range selected now
\* (the store has not changed since it was answered)
CurrentRangePass ==
    LET dateFilter == getDateFilter(timeRange, now)
    IN [done EXCEPT
          !.range = timeRange,
          !.dateFilter = dateFilter,
          !.events = Ok(EventsQuery(page, store, dateFilter)),
          !.msgs = IF done.msgs.ok
                   THEN Ok(MessagesQuery(page, messages, dateFilter))
                   ELSE Failed]

\* the metrics on display, the overview's average response time left aside
\* (a pass without processing times does not write it)
Metrics(d) == IF page.path = "overview" THEN [d EXCEPT !.avgProcessingMs = 0] ELSE d

\* C4: once every pass in flight has completed, passes having overlapped, the
\* metrics shown are those of the range selected now and not of a range
\* selected before: the result of a pass for an earlier range is discarded.
C4_StaleRangeDiscarded ==
    (Settled /\ done.overlapped /\ arrivals = 0) =>
        Metrics(display) = Metrics(Written(page, Initial(page), CurrentRangePass, now))

\* C5: a pass whose events query failed runs no aggregation: everything on
\* display keeps the value it had after the successful pass before it, on
\* each page.
C5_FailedQueryKeepsDisplay ==
    [][(Completed /\ done.events.ok /\ done' # done /\ ~done'.events.ok)
          => display' = display]_vars

\* the rows of a table that have both a timestamp and a user id
WellFormed(rows) ==
    LET Whole(e) == e.ts # NoTs /\ e.uid # NullUid
    IN SelectSeq(rows, Whole)

\* what pass p writes on a freshly mounted page
ResultOf(p) == Written(page, Initial(page), p, now)

\* the last pass, had the store held no malformed row
CleanPass ==
    [done EXCEPT
        !.events = Ok(EventsQuery(page, WellFormed(store), done.dateFilter)),
        !.all = IF done.all.ok THEN Ok(AllEvents(WellFormed(store))) ELSE Failed]

\* C6: a record without timestamp or without user id is dropped on its own:
\* the pass completes and shows the metrics of the input without that record.
C6_MalformedRecordDropped ==
    (Completed /\ done.events.ok) =>
        /\ loading = FALSE
        /\ display = ResultOf(CleanPass)

Count(events, Test(_)) == Cardinality({i \in 1..Len(events) : Test(events[i])})

\* a ratio is finite, and 0 when its denominator is 0
Safe(ratio, denominator) == IsFinite(ratio) /\ (denominator = 0 => ratio = 0)

UsersRatiosSafe ==
    LET ev == Input
        st == display.stats
        Basket(e) == e.name = "basket_results_displayed"
        Saving(e) == Basket(e) /\ e.props.savings_cents # 0
        Week1(e) == e.ts >= subDays(now, 14) /\ e.ts < subDays(now, 7)
        Attempt(e) == e.name = "comparison_started"
        Started(e) == e.name = "onboarding_started"
        Timed(m) == m.ms # 0
    IN /\ Safe(st.dauWauRatio, st.wau)
       /\ Safe(st.avgBasketsPerUser10, st.mau)
       /\ Safe(st.avgSavingsPerBasket, Count(ev, Saving))
       /\ Safe(st.actionRate, Count(ev, Basket))
       /\ Safe(st.w1Retention, Count(ev, Week1))
       /\ Safe(st.basketSuccessRate, Count(ev, Attempt))
       /\ Safe(st.avgProcessingMs, Count(OrEmpty(done.msgs), Timed))
       /\ \A i \in 1..Len(display.weeklyUsers) :
             Safe(display.weeklyUsers[i].basketsPerUser10, display.weeklyUsers[i].wau)
       /\ \A i \in 1..Len(display.retentionData) :
             LET c == display.retentionData[i]
             IN Safe(c.w1, c.users) /\ Safe(c.w2, c.users) /\ Safe(c.w4, c.users)
       /\ \A i \in 1..Len(display.userSegments) :
             LET g == display.userSegments[i]
             IN Safe(g.avgEvents, g.users) /\ Safe(g.avgSavings, g.users)
       /\ Safe(display.activationMetrics.onboardingCompletionRate, Count(ev, Started))
       /\ Safe(display.activationMetrics.firstBasketRate, st.mau)
       /\ Safe(display.activationMetrics.ahaEventRate, Count(ev, Basket))
       /\ Safe(display.acquisitionMetrics.newUserConversionRate,
               display.acquisitionMetrics.trulyNewUsers)
       /\ \A i \in 1..Len(display.latencyData) :
             Safe(display.latencyData[i].avg, display.latencyData[i].count)

FeatureRatiosSafe == Safe(display.stats.avgPerUser, display.stats.uniqueUsers)

OverviewRatiosSafe ==
    LET Started(e) == e.name = "onboarding_started"
    IN /\ \A i \in 1..Len(display.featureAdoption) :
             Safe(display.featureAdoption[i].adoption_rate, display.totalUsers)
       /\ Safe(display.onboardingRate, Count(Input, Started))
       /\ IsFinite(display.avgProcessingMs)

OnboardingRatiosSafe ==
    /\ Safe(display.stats.overallRate, display.stats.totalStarted)
    /\ IsFinite(display.stats.biggestDropoffPct)
    /\ \A i \in 1..Len(display.dailyData) :
          Safe(display.dailyData[i].rate, display.dailyData[i].started)
    /\ \A i \in 2..Len(display.funnelData) :
          IF display.funnelData[i - 1].users = 0
          THEN display.funnelData[i].dropoffPct = <<>>
          ELSE IsFinite(display.funnelData[i].dropoffPct[1])

FunnelShown == display.funnelData

StepUsers(events, name) ==
    LET Named(e) == e.name = name
    IN Cardinality(UidsOf(SelectSeq(events, Named)))

\* C8: the funnel shows, per step, the number of distinct users seen on the
\* step's event; the drop-off of a step after the first is the previous
\* step's users minus its own, and the drop-off percentage is that drop-off
\* over the previous step's users, times 100, rounded to the nearest whole
\* number, and the empty string when the previous step has no user.
C8_FunnelDropoffRounded ==
    (page.path = "onboarding" /\ Completed) =>
        /\ Len(FunnelShown) = StepCount
        /\ \A i \in 1..StepCount :
              LET step == FunnelShown[i]
                  users == StepUsers(Input, ONBOARDING_STEPS[i].event)
                  prev == IF i = 1 THEN 0
                          ELSE StepUsers(Input, ONBOARDING_STEPS[i - 1].event)
              IN /\ step.users = users
                 /\ step.dropoff = IF i = 1 THEN 0 ELSE prev - users
                 /\ IF prev = 0
                    THEN step.dropoffPct = <<>>
                    ELSE /\ Len(step.dropoffPct) = 2
                         /\ step.dropoffPct[2] = "%"
                         /\ 2 * Abs(100 * step.dropoff - step.dropoffPct[1] * prev) <= prev

C8_Witness ==
    /\ page.path = "onboarding" /\ Completed
    /\ \E i \in 2..StepCount :
          /\ FunnelShown[i - 1].users = 3
          /\ FunnelShown[i].dropoff = 2
          /\ FunnelShown[i].dropoffPct = <<67, "%">>
    /\ \E i \in 2..StepCount : FunnelShown[i].dropoffPct = <<>>

\* C9: a step with more users than the step before it has a negative
\* drop-off, shown as it is and not raised to 0; its percentage is negative
\* too.
C9_NegativeDropoffKept ==
    (page.path = "onboarding" /\ Completed) =>
        \A i \in 2..Len(FunnelShown) :
            FunnelShown[i].users > FunnelShown[i - 1].users =>
                /\ FunnelShown[i].dropoff = FunnelShown[i - 1].users - FunnelShown[i].users
                /\ FunnelShown[i].dropoff < 0
                /\ FunnelShown[i - 1].users > 0 => FunnelShown[i].dropoffPct[1] < 0

C9_Witness ==
    /\ page.path = "onboarding" /\ Completed
    /\ \E i \in 2..Len(FunnelShown) :
          /\ FunnelShown[i - 1].users = 1
          /\ FunnelShown[i].users = 2
          /\ FunnelShown[i].dropoff = 0 - 1
          /\ FunnelShown[i].dropoffPct = <<0 - 100, "%">>

\* the transitions of the funnel that have a drop-off percentage
Transitions(funnel) == {i \in 2..Len(funnel) : funnel[i - 1].users > 0}

\* transition i loses a larger share of users than j, or the same share
LosesAtLeast(funnel, i, j) ==
    funnel[i].dropoff * funnel[j - 1].users >= funnel[j].dropoff * funnel[i - 1].users

LosesMore(funnel, i, j) ==
    funnel[i].dropoff * funnel[j - 1].users > funnel[j].dropoff * funnel[i - 1].users

TransitionLabel(funnel, i) == <<funnel[i - 1].shortName, funnel[i].shortName>>

\* the page names transition i of the funnel as the biggest drop-off
Names(funnel, i) ==
    /\ display.stats.biggestDropoff = TransitionLabel(funnel, i)
    /\ 2 * Abs(100 * funnel[i].dropoff - display.stats.biggestDropoffPct * funnel[i - 1].users)
          <= funnel[i - 1].users

\* C10 as stated: the biggest drop-off shown is the transition with the
\* largest drop-off percentage, the earliest one on a tie, also when no
\* transition loses users (here over input without a malformed record).
C10_BiggestDropoffAsStated ==
    (page.path = "onboarding" /\ Completed /\ store = WellFormed(store)) =>
        LET funnel == FunnelShown
            T == Transitions(funnel)
        IN \A i \in T :
              (/\ \A j \in T : LosesAtLeast(funnel, i, j)
               /\ \A j \in T : j < i => LosesMore(funnel, i, j))
              => Names(funnel, i)

\* C10 amended: among the transitions that lose users, the one with the
\* largest drop-off percentage is shown, the earliest one on a tie; when no
\* transition loses users none is shown: the label is empty and the
\* percentage is 0.
C10_BiggestDropoff ==
    (page.path = "onboarding" /\ Completed) =>
        LET funnel == FunnelShown
            T == {i \in Transitions(funnel) : funnel[i].dropoff > 0}
        IN /\ \A i \in T :
                 (/\ \A j \in T : LosesAtLeast(funnel, i, j)
                  /\ \A j \in T : j < i => LosesMore(funnel, i, j))
                 => Names(funnel, i)
           /\ T = {} => /\ display.stats.biggestDropoff = <<>>
                        /\ display.stats.biggestDropoffPct = 0

C10_Witness ==
    /\ page.path = "onboarding" /\ Completed
    /\ LET funnel == FunnelShown
           T == {i \in Transitions(funnel) : funnel[i].dropoff > 0}
       IN \E i, j \in T :
             /\ i < j
             /\ LosesAtLeast(funnel, i, j) /\ LosesAtLeast(funnel, j, i)
             /\ \A k \in T : LosesAtLeast(funnel, i, k)
             /\ Names(funnel, i)

---------------------------------------------------------------------------
(* Cohort retention (users page) *)

CohortsShown == display.retentionData

\* the users with an event in [from, to)
UsersIn(events, from, to) ==
    {u \in {events[i].uid : i \in 1..Len(events)} :
        \E i \in 1..Len(events) :
            events[i].uid = u /\ events[i].ts >= from /\ events[i].ts < to}

\* the start of the cohort week that began w weeks before now
CohortStart(w) == now - 7 * w * TicksPerDay

\* x is a / b * 100 rounded to the nearest whole number
IsRoundedPct(x, a, b) == 2 * 100 * a - b < 2 * b * x /\ 2 * b * x <= 2 * 100 * a + b

\* the row shown for the cohort that began w weeks ago, if it has one
RowOfCohort(w) ==
    {i \in 1..Len(CohortsShown) :
        CohortsShown[i].cohort = FormatMMMdd(DateOf(CohortStart(w)))}

\* what the row says for checkpoint k
AtCheckpoint(row, k) == CASE k = 1 -> row.w1 [] k = 2 -> row.w2 [] k = 4 -> row.w4

Checkpoints == {1, 2, 4}

\* C11: for each cohort week with a user and each checkpoint k of 1, 2, 4,
\* the retention shown is round(100 * r / c): c the distinct users with an
\* event in the cohort week [start, start + 7d), r those of them with an
\* event in [start + 7k days, start + 7(k+1) days).
C11_CohortRetention ==
    (page.path = "users" /\ Completed /\ done.events.ok) =>
        \A w \in 1..CohortWeeks :
            LET start == CohortStart(w)
                cohort == UsersIn(Input, start, start + 7 * TicksPerDay)
            IN cohort # {} =>
                  /\ RowOfCohort(w) # {}
                  /\ \A i \in RowOfCohort(w) : \A k \in Checkpoints :
                      LET from == start + 7 * k * TicksPerDay
                          back == cohort \cap UsersIn(Input, from, from + 7 * TicksPerDay)
                      IN /\ CohortsShown[i].users = Cardinality(cohort)
                         /\ IsRoundedPct(AtCheckpoint(CohortsShown[i], k),
                                         Cardinality(back), Cardinality(cohort))

C11_Witness ==
    /\ page.path = "users" /\ Completed /\ done.events.ok
    /\ \E i \in 1..Len(CohortsShown) :
          /\ CohortsShown[i].users = 2
          /\ CohortsShown[i].w1 = 50
    /\ \E i \in 1..Len(Input) : Input[i].ts = CohortStart(1)

\* the window of checkpoint k of the cohort that began w weeks ago ends after now
NotElapsed(w, k) == CohortStart(w) + 7 * (k + 1) * TicksPerDay > now

\* C12: when the window of a checkpoint has not elapsed at now (a cohort of
\* 1 or 2 weeks ago at checkpoint 4, say), the retention shown for that
\* checkpoint is 0, and the row of the cohort is shown all the same.
C12_UnelapsedCheckpointZero ==
    (page.path = "users" /\ Completed /\ done.events.ok) =>
        \A w \in 1..CohortWeeks : \A k \in Checkpoints :
            (NotElapsed(w, k)
             /\ UsersIn(Input, CohortStart(w), CohortStart(w) + 7 * TicksPerDay) # {})
            => /\ RowOfCohort(w) # {}
               /\ \A i \in RowOfCohort(w) : AtCheckpoint(CohortsShown[i], k) = 0

C12_Witness ==
    /\ page.path = "users" /\ Completed /\ done.events.ok
    /\ \E i \in RowOfCohort(2) :
          /\ CohortsShown[i].w1 > 0
          /\ CohortsShown[i].w2 = 0
          /\ CohortsShown[i].w4 = 0
    /\ RowOfCohort(1) # {}

\* the trailing weeks that have a user, as weeks before now
PeopledWeeks ==
    {w \in 1..CohortWeeks :
        UsersIn(Input, CohortStart(w), CohortStart(w) + 7 * TicksPerDay) # {}}

\* the week, counted back from now, whose cohort row i shows
WeekOfRow(i) ==
    CHOOSE w \in 1..CohortWeeks :
        CohortsShown[i].cohort = FormatMMMdd(DateOf(CohortStart(w)))

\* C13: the cohort table holds exactly the trailing weeks that have a user,
\* a week without users has no row, and the rows are in ascending order of
\* cohort start.
C13_CohortsPeopledAscending ==
    (page.path = "users" /\ Completed /\ done.events.ok) =>
        /\ Len(CohortsShown) = Cardinality(PeopledWeeks)
        /\ \A w \in 1..CohortWeeks : (RowOfCohort(w) # {}) <=> (w \in PeopledWeeks)
        /\ \A i \in 1..Len(CohortsShown) : CohortsShown[i].users > 0
        /\ \A i, j \in 1..Len(CohortsShown) :
              i < j => CohortStart(WeekOfRow(i)) < CohortStart(WeekOfRow(j))

C13_Witness ==
    /\ page.path = "users" /\ Completed /\ done.events.ok
    /\ PeopledWeeks = {1, 3}
    /\ Len(CohortsShown) = 2
    /\ WeekOfRow(1) = 3 /\ WeekOfRow(2) = 1

---------------------------------------------------------------------------
(* User segments (users page) *)

SegmentsShown == display.userSegments

\* the number of events of user u in the input
EventsOfUser(events, u) == Cardinality({i \in 1..Len(events) : events[i].uid = u})

\* the users of the input with at least lo and fewer than hi events
UsersWithCount(events, lo, hi) ==
    {u \in {events[i].uid : i \in 1..Len(events)} :
        EventsOfUser(events, u) >= lo /\ EventsOfUser(events, u) < hi}

\* C14: every user is put in the highest segment whose minimum the user's
\* event count meets, the minimum included: 50 and more is Power, 20 to 49
\* Active, 5 to 19 Casual, fewer than 5 New.
C14_SegmentThresholdsInclusive ==
    (page.path = "users" /\ Completed /\ done.events.ok) =>
        /\ Len(SegmentsShown) = 4
        /\ SegmentsShown[1].users =
              Cardinality(UsersWithCount(Input, 50, Len(Input) + 1))
        /\ SegmentsShown[2].users = Cardinality(UsersWithCount(Input, 20, 50))
        /\ SegmentsShown[3].users = Cardinality(UsersWithCount(Input, 5, 20))
        /\ SegmentsShown[4].users = Cardinality(UsersWithCount(Input, 0, 5))

C14_Witness ==
    /\ page.path = "users" /\ Completed /\ done.events.ok
    /\ EventsOfUser(Input, "u1") = 50
    /\ EventsOfUser(Input, "u2") = 20
    /\ EventsOfUser(Input, "u3") = 5
    /\ SegmentsShown[1].users = 1
    /\ SegmentsShown[2].users = 1
    /\ SegmentsShown[3].users = 1
    /\ SegmentsShown[4].users = 0

----------------------------------------------------------------------------
(* Latency percentiles (users page) *)

LatencyShown == display.latencyData
MessagesIn == OrEmpty(done.msgs)       \* the rows the last pass computed latencies from

\* the processing times of the fetched messages of one response type
TimesOfType(msgs, type) ==
    LET Hit(m) == m.type = type /\ m.ms # 0
        hit == SelectSeq(msgs, Hit)
    IN [i \in 1..Len(hit) |-> hit[i].ms]

TypesOf(msgs) == {msgs[i].type : i \in {j \in 1..Len(msgs) : msgs[j].ms # 0}} \ {""}

\* x is the element at 0-based index k of the values sorted ascending
AtRank(values, k, x) ==
    /\ Cardinality({i \in 1..Len(values) : values[i] < x}) <= k
    /\ k < Cardinality({i \in 1..Len(values) : values[i] <= x})

Clamp(k, n) == Max(0, Min(k, n - 1))

IsMember(values, x) == \E i \in 1..Len(values) : values[i] = x

RowsOfType(type) == {i \in 1..Len(LatencyShown) : LatencyShown[i].type = Spaced(type)}

\* C15: for every response type with n >= 1 latency values, the reported p50
\* is the element at index floor(0.5 * n) and the reported p95 the element at
\* index floor(0.95 * n) of the values sorted ascending, each index clamped to
\* [0, n-1]; p50 <= p95 and both are members of the input.
C15_PercentileIndices ==
    (Completed /\ done.events.ok) =>
        \A type \in TypesOf(MessagesIn) :
           LET values == TimesOfType(MessagesIn, type)
               n == Len(values)
           IN /\ Cardinality(RowsOfType(type)) = 1
              /\ \A i \in RowsOfType(type) :
                    /\ AtRank(values, Clamp(n \div 2, n), LatencyShown[i].p50)
                    /\ AtRank(values, Clamp((95 * n) \div 100, n), LatencyShown[i].p95)
                    /\ LatencyShown[i].p50 <= LatencyShown[i].p95
                    /\ IsMember(values, LatencyShown[i].p50)
                    /\ IsMember(values, LatencyShown[i].p95)

\* 21 values of one type, a single slow one: the p95 is not the largest
\* value, and a second type has its own row
C15_Witness ==
    /\ Completed /\ done.events.ok
    /\ Len(TimesOfType(MessagesIn, "basket_result")) = 21
    /\ \E i \in RowsOfType("basket_result") :
          /\ LatencyShown[i].p50 = 100
          /\ LatencyShown[i].p95 = 100
          /\ IsMember(TimesOfType(MessagesIn, "basket_result"), 300)
    /\ \E i \in RowsOfType("product_search") :
          LatencyShown[i].p50 = 50 /\ LatencyShown[i].p95 = 50

\* the computation of a latency row, applied to the values of one type
RowFor(type) == LatencyRow([key |-> type, times |-> TimesOfType(MessagesIn, type)])

----------------------------------------------------------------------------
(* Acquisition metrics (users page) *)

Markers(events) == WithName(events, {"auth_anonymous_selected"})

\* the first marker event of user u in the input
FirstMarker(events, u) ==
    LET OfUser(e) == e.uid = u
    IN Head(SelectSeq(Markers(events), OfUser))

MarkerUsers(events) == UidsOf(Markers(events))

FirstNew(events) ==
    {u \in MarkerUsers(events) : FirstMarker(events, u).props.is_new_user}

FirstReturning(events) ==
    {u \in MarkerUsers(events) :
        /\ ~FirstMarker(events, u).props.is_new_user
        /\ FirstMarker(events, u).props.is_returning_device}

\* C17: a user whose marker events carry conflicting flags is classified by
\* the first occurrence only: the truly-new and returning-device counts are
\* those of the users' first marker events, and no user is counted in both.
C17_FirstOccurrenceClassifies ==
    (Completed /\ done.events.ok /\ page.path = "users") =>
        /\ display.acquisitionMetrics.trulyNewUsers = Cardinality(FirstNew(Input))
        /\ display.acquisitionMetrics.returningDeviceUsers =
              Cardinality(FirstReturning(Input))
        /\ display.acquisitionMetrics.trulyNewUsers
              + display.acquisitionMetrics.returningDeviceUsers
              <= Cardinality(MarkerUsers(Input))

----------------------------------------------------------------------------
(* User-set conversion rates *)

UsersOf(events, names) == UidsOf(WithName(events, names))

\* round(100 * |num \cap den| / |den|), halves rounded up; 0 on an empty den
SetRate(num, den) ==
    IF den = {} THEN 0
    ELSE (200 * Cardinality(num \cap den) + Cardinality(den))
            \div (2 * Cardinality(den))

StartedUsers == UsersOf(Input, {"onboarding_started"})
CompletedUsers == UsersOf(Input, {"onboarding_completed"})
BasketUsers == UsersOf(Input, {"basket_results_displayed"})
ActionUsers ==
    UsersOf(Input, {"product_swapped", "comparison_started", "shopping_list_saved"})
NewUsers ==
    {Markers(Input)[i].uid :
        i \in {j \in 1..Len(Markers(Input)) : Markers(Input)[j].props.is_new_user}}

\* the user-set conversion rates the mounted page shows, with the rate the
\* numerator and denominator sets give
RatesShown ==
    CASE page.path = "users" ->
            {<<display.activationMetrics.onboardingCompletionRate,
               SetRate(CompletedUsers, StartedUsers)>>,
             <<display.stats.actionRate, SetRate(ActionUsers, BasketUsers)>>,
             <<display.acquisitionMetrics.newUserConversionRate,
               SetRate(BasketUsers, NewUsers)>>}
      [] page.path = "overview" ->
            {<<display.onboardingRate, SetRate(CompletedUsers, StartedUsers)>>}
      [] page.path = "onboarding" ->
            {<<display.stats.overallRate, SetRate(CompletedUsers, StartedUsers)>>}
      [] OTHER -> {}

\* C18: every user-set conversion rate shown equals
\* round(100 * |numerator users also in the denominator set| / |denominator set|),
\* 0 when the denominator set is empty, and never exceeds 100.
C18_RateOfIntersection ==
    (Completed /\ done.events.ok) =>
        \A r \in RatesShown : r[1] = r[2] /\ r[1] <= 100

----------------------------------------------------------------------------
(* Event breakdown and top users (feature page) *)

BreakdownShown == display.eventBreakdown
TopUsersShown == display.topUsers

NamesOf(events) == {events[i].name : i \in 1..Len(events)}
EventsNamedAs(events, name) == {i \in 1..Len(events) : events[i].name = name}
EventsOfUid(events, u) == {i \in 1..Len(events) : events[i].uid = u}

\* the position at which a key is first seen in the input
FirstSeen(S) == CHOOSE i \in S : \A j \in S : i <= j

\* the event name whose breakdown row is row i
NameOfRow(i) == CHOOSE n \in NamesOf(Input) : Spaced(n) = BreakdownShown[i].name

BreakdownOrdered ==
    \A i, j \in 1..Len(BreakdownShown) :
       i < j =>
          \/ BreakdownShown[i].count > BreakdownShown[j].count
          \/ /\ BreakdownShown[i].count = BreakdownShown[j].count
             /\ FirstSeen(EventsNamedAs(Input, NameOfRow(i)))
                   < FirstSeen(EventsNamedAs(Input, NameOfRow(j)))

TopUsersOrdered ==
    \A i, j \in 1..Len(TopUsersShown) :
       i < j =>
          \/ TopUsersShown[i].count > TopUsersShown[j].count
          \/ /\ TopUsersShown[i].count = TopUsersShown[j].count
             /\ FirstSeen(EventsOfUid(Input, TopUsersShown[i].user))
                   < FirstSeen(EventsOfUid(Input, TopUsersShown[j].user))

\* C19: the event breakdown has one entry per distinct event name, with the
\* number of events and of distinct users of that name, sorted by count
\* descending; entries with equal counts, in the breakdown and in the
\* top-users list, are in the order in which their key was first seen.
C19_BreakdownSortedStable ==
    (Completed /\ done.events.ok /\ page.path = "feature") =>
        /\ Len(BreakdownShown) = Cardinality(NamesOf(Input))
        /\ \A n \in NamesOf(Input) :
              \E i \in 1..Len(BreakdownShown) :
                 /\ BreakdownShown[i].name = Spaced(n)
                 /\ BreakdownShown[i].count = Cardinality(EventsNamedAs(Input, n))
                 /\ BreakdownShown[i].users =
                       Cardinality({Input[k].uid : k \in EventsNamedAs(Input, n)})
        /\ BreakdownOrdered
        /\ ~TopUsersThrows(Input) =>
              /\ Len(TopUsersShown) = Cardinality(UidsOf(Input))
              /\ \A i \in 1..Len(TopUsersShown) :
                    TopUsersShown[i].count =
                       Cardinality(EventsOfUid(Input, TopUsersShown[i].user))
              /\ TopUsersOrdered

\* two names with equal counts and two users with equal counts, each pair
\* shown in first-seen order
C19_Witness ==
    /\ Completed /\ done.events.ok /\ page.path = "feature"
    /\ Len(BreakdownShown) = 2
    /\ BreakdownShown[1].count = BreakdownShown[2].count
    /\ Len(TopUsersShown) = 2
    /\ TopUsersShown[1].count = TopUsersShown[2].count
    /\ TopUsersShown[1].user = Input[1].uid
    /\ BreakdownShown[1].name = Spaced(Input[1].name)

----------------------------------------------------------------------------
(* Order of the daily series *)

\* the daily series of the mounted page, the onboarding page included
DailySeriesShown ==
    IF page.path = "onboarding" THEN display.dailyData ELSE DailyShown

ShownCount == Min(DailyWindow, Cardinality(DatesOf(Input)))

\* C20: whatever the order in which the store returned the events (ascending
\* by received_at; descending on the overview page), the daily series a page
\* shows is ascending by date and consists of the last 14 dates that have
\* events.
C20_DailyAscendingLast14 ==
    (Completed /\ done.events.ok) =>
        /\ Len(DailySeriesShown) = ShownCount
        /\ \A i \in 1..ShownCount :
              DailySeriesShown[i].date =
                 FormatMMMdd(Nth(DatesOf(Input),
                                 Cardinality(DatesOf(Input)) - ShownCount + i))

\* the overview page, whose query is descending, over more than 14 days
C20_Witness ==
    /\ Completed /\ done.events.ok /\ page.path = "overview"
    /\ Len(Input) > 1 /\ Input[1].ts > Input[Len(Input)].ts
    /\ Cardinality(DatesOf(Input)) > DailyWindow
    /\ Len(DailySeriesShown) = DailyWindow
    /\ DailySeriesShown[DailyWindow].date = FormatMMMdd(DateOf(Input[1].ts))

----------------------------------------------------------------------------
(* Determinism of the aggregation *)

\* C21: a pass that aggregates the same query results as the pass completed
\* before it writes the same output: no aggregation result depends on a clock
\* value read inside the pass.
C21_SameInputSameOutput ==
    [][(/\ Completed /\ done.events.ok
        /\ done' # done
        /\ done'.events = done.events
        /\ done'.msgs = done.msgs
        /\ done'.all = done.all)
          => display' = display]_vars

----------------------------------------------------------------------------
(* Lower bound of the queries *)

\* every row of a query result lies at or after the bound
AllSince(res, bound) ==
    res.ok => \A i \in 1..Len(res.data) : res.data[i].ts >= bound

\* C22: every query whose rows a pass aggregates is restricted by the lower
\* bound of that pass, now - selected range: the events, the chat messages
\* and the rows the overview page derives the new users from.
C22_SingleLowerBound ==
    Completed =>
        /\ AllSince(done.events, done.dateFilter)
        /\ AllSince(done.msgs, done.dateFilter)
        /\ AllSince(done.all, done.dateFilter)

----------------------------------------------------------------------------
(* Feature and platform buckets (overview page) *)

FeaturesShown == display.featureAdoption
PlatformsShown == display.platformData

\* the event names that are keys of EVENT_TO_FEATURE
MappedNames ==
    {"browse_page_viewed", "browse_lazy_load", "chat_page_viewed", "message_sent",
     "basket_viewed", "basket_results_displayed", "shopping_list_viewed",
     "item_added", "product_added_to_list", "multiple_products_added",
     "settings_page_viewed", "language_selected", "onboarding_started",
     "onboarding_completed", "comparison_started", "product_swapped",
     "quick_action_tapped", "demo_list_selected", "app_launch",
     "splash_load_completed"}

Unmapped(events) == {i \in 1..Len(events) : events[i].name \notin MappedNames}
NoPlatform(events) == {i \in 1..Len(events) : events[i].platform = ""}

FeatureEventsSum == SumSeq([i \in 1..Len(FeaturesShown) |-> FeaturesShown[i].events])
PlatformCountSum == SumSeq([i \in 1..Len(PlatformsShown) |-> PlatformsShown[i].count])

\* the number of events the bucket named key reports, 0 without such a bucket
BucketEvents(key) ==
    SumSeq([i \in 1..Len(FeaturesShown) |->
              IF FeaturesShown[i].feature = key THEN FeaturesShown[i].events ELSE 0])

BucketCount(key) ==
    SumSeq([i \in 1..Len(PlatformsShown) |->
              IF PlatformsShown[i].platform = key THEN PlatformsShown[i].count ELSE 0])

\* C23: on the overview page the events whose name is not in the
\* event-to-feature map are counted in the "Other" bucket and the events
\* without a platform in the "unknown" bucket; no event is dropped: the
\* per-feature counts and the per-platform counts each sum to the number of
\* events.
C23_OtherAndUnknownBuckets ==
    (Completed /\ page.path = "overview") =>
        /\ BucketEvents("Other") = Cardinality(Unmapped(Input))
        /\ BucketCount("unknown") = Cardinality(NoPlatform(Input))
        /\ FeatureEventsSum = Len(Input)
        /\ PlatformCountSum = Len(Input)

\* an event with an unmapped name and no platform, next to mapped events
\* with a platform
C23_Witness ==
    /\ Completed /\ page.path = "overview"
    /\ Unmapped(Input) # {}
    /\ NoPlatform(Input) # {}
    /\ Len(Input) > Cardinality(Unmapped(Input))
    /\ Len(Input) > Cardinality(NoPlatform(Input))
    /\ BucketEvents("Other") >= 1
    /\ BucketCount("unknown") >= 1

----------------------------------------------------------------------------
(* The latency table under its own time range (users page) *)

\* no fetchData pass and no fetchLatency call is in flight, and the queries
\* of the calls that completed last returned data
AllFetchesDone ==
    /\ passes = {} /\ latency.fetches = {}
    /\ Completed /\ done.events.ok /\ done.msgs.ok
    /\ latency.ran /\ latency.ok

\* the rows of the messages inside the latency time range selected now
LatencyOfSelectedRange ==
    Latencies(LatencyQuery(messages, latencyDateFilter(latency.range, now)))

\* C24: on the users page, once all in-flight fetches have completed, the
\* latency table shows the rows computed from the messages inside the
\* latency time range selected now.
C24_LatencyTableOfSelectedRange ==
    (page.path = "users" /\ AllFetchesDone) =>
        display.latencyData = LatencyOfSelectedRange

----------------------------------------------------------------------------
(* The loading flag *)

\* C25: on every page, whenever no pass is in flight the loading flag is
\* false, whether the last pass succeeded, got no data from the store, or
\* raised an exception while aggregating.
C25_LoadingResetWhenIdle == (passes = {}) => ~loading

----------------------------------------------------------------------------
(* Average response time (overview page) *)

\* the rounded mean of the processing times of the messages, 0 without any
RoundedMean(times) ==
    IF Len(times) = 0 THEN 0
    ELSE (2 * SumSeq(times) + Len(times)) \div (2 * Len(times))

\* C26: on the overview page, after every completed pass the average
\* response time shown is the rounded mean of the processing times of the
\* messages that pass fetched, and 0 when it fetched none with a processing
\* time.
C26_AvgResponseTimeOfLastPass ==
    (Completed /\ page.path = "overview") =>
        display.avgProcessingMs = RoundedMean(ProcessingTimes(OrEmpty(done.msgs)))

----------------------------------------------------------------------------
(* The refresh timer (overview page) *)

\* C27: on the overview page at most one refresh timer is installed after
\* every step, and a pass started by a step, by the timer or by a change of
\* range, fetches with the time range selected after that step.
C27_OneTimerCurrentRange ==
    [][page.path = "overview" =>
          /\ Cardinality(timer') <= 1
          /\ \A i \in timer' : i.range = timeRange'
          /\ \A p \in passes' : p.id = nextId => p.range = timeRange']_vars

\* the range was changed to 24h by the second effect, and the timer that
\* effect installed has started the third pass
C27_Witness ==
    /\ page.path = "overview"
    /\ timeRange = "24h"
    /\ timer = {[id |-> 2, range |-> "24h"]}
    /\ \E p \in passes : p.id = 3 /\ p.range = "24h"

----------------------------------------------------------------------------
(* SpecGate: requests through the access gate *)

InitGate ==
    /\ Mounted([path |-> "overview", feature |-> ""])
    /\ store = <<>>
    /\ messages = <<>>

NextGate ==
    \/ \E pathname \in GatePaths, key \in GateKeys, cookie \in GateKeys :
          Navigate(pathname, key, cookie)
    \/ Handle

SpecGate == InitGate /\ [][NextGate]_vars

IsDashboardPage(pathname) ==
    \/ pathname \in {Root, UsersPath, OnboardingPath}
    \/ startsWith(pathname, <<"/", "feature", "/">>) /\ Len(pathname) > 3

CarriesSecret(request) == request.key = SECRET_KEY \/ request.cookie = SECRET_KEY

\* C28: a request for a dashboard page (/, /users, /onboarding,
\* /feature/<name>) that carries the secret neither as key parameter nor as
\* dashboard_key cookie is never served by the application, it ends on
\* /access-denied after one redirect; and no navigation follows more than one
\* redirect.
C28_GateRedirectsOnce ==
    /\ gate.redirects <= 1
    /\ gate.status # "too many redirects"
    /\ (gate.status = "served" /\ IsDashboardPage(gate.first.pathname)
            /\ ~CarriesSecret(gate.first))
         => gate.request.pathname = AccessDenied /\ gate.redirects = 1

\* The same for the pathnames without a dot.
C28_HoldsWithoutDot ==
    /\ gate.redirects <= 1
    /\ gate.status # "too many redirects"
    /\ (gate.status = "served" /\ IsDashboardPage(gate.first.pathname)
            /\ ~includes(gate.first.pathname, ".")
            /\ ~CarriesSecret(gate.first))
         => gate.request.pathname = AccessDenied /\ gate.redirects = 1

----------------------------------------------------------------------------
(* The segments partition the users (users page) *)

\* the event-count range a segment is labelled with: '50+', '20-49', '5-19',
\* '1-4'; Power has no upper end
SegmentLow == <<PowerMin, ActiveMin, CasualMin, 1>>
SegmentHigh(events) == <<Len(events), PowerMin - 1, ActiveMin - 1, CasualMin - 1>>

\* the users of the input whose event count lies in the range of segment i
SegmentUsers(events, i) ==
    {u \in UidsOf(events) :
        /\ EventsOfUser(events, u) >= SegmentLow[i]
        /\ EventsOfUser(events, u) <= SegmentHigh(events)[i]}

\* C29: the four segments partition the users: every distinct user of the
\* event list is counted in exactly one segment, the user counts of the
\* segments sum to the number of distinct users, which is the MAU figure of
\* the same pass, and the average events per user of a segment that has a
\* user lies within the range of the segment.
C29_SegmentsPartitionUsers ==
    (page.path = "users" /\ Completed /\ done.events.ok) =>
        /\ \A u \in UidsOf(Input) :
              Cardinality({i \in 1..4 : u \in SegmentUsers(Input, i)}) = 1
        /\ \A i \in 1..4 :
              SegmentsShown[i].users = Cardinality(SegmentUsers(Input, i))
        /\ SumSeq([i \in 1..4 |-> SegmentsShown[i].users]) = Cardinality(UidsOf(Input))
        /\ SumSeq([i \in 1..4 |-> SegmentsShown[i].users]) = display.stats.mau
        /\ \A i \in 1..4 :
              SegmentsShown[i].users > 0 =>
                 /\ SegmentsShown[i].avgEvents >= SegmentLow[i]
                 /\ SegmentsShown[i].avgEvents <= SegmentHigh(Input)[i]

\* Two users share the Active segment, with 21 and 20 events: the average
\* 20.5 is shown as 21; the third user is Casual and MAU is 3.
C29_Witness ==
    /\ page.path = "users" /\ Completed /\ done.events.ok
    /\ EventsOfUser(Input, "u1") = 21
    /\ EventsOfUser(Input, "u2") = 20
    /\ SegmentsShown[2].users = 2 /\ SegmentsShown[2].avgEvents = 21
    /\ SegmentsShown[3].users = 1
    /\ display.stats.mau = 3

----------------------------------------------------------------------------
(* Active users and retention are ordered and bounded (users page) *)

Percent(x) == x \in 0..100

\* C30: whatever the events and whatever range is selected, the users page
\* shows DAU <= WAU <= MAU, a DAU/WAU stickiness between 0 and 100, and a W1
\* retention and cohort retentions (w1, w2, w4 of every row) between 0 and 100.
C30_ActiveUsersOrderedRatesBounded ==
    page.path = "users" =>
        /\ display.stats.dau <= display.stats.wau
        /\ display.stats.wau <= display.stats.mau
        /\ Percent(display.stats.dauWauRatio)
        /\ Percent(display.stats.w1Retention)
        /\ \A i \in 1..Len(CohortsShown) :
              /\ Percent(CohortsShown[i].w1)
              /\ Percent(CohortsShown[i].w2)
              /\ Percent(CohortsShown[i].w4)

\* The range was changed to 24h and back to 30d; the third pass shows one of
\* the two users active today, both in the last seven days, a stickiness of
\* 50, the user of two weeks ago retained, and cohort rows.
C30_Witness ==
    /\ page.path = "users" /\ Completed /\ done.events.ok
    /\ done.id = 3 /\ timeRange = "30d"
    /\ display.stats.dau = 1 /\ display.stats.wau = 2 /\ display.stats.mau = 2
    /\ display.stats.dauWauRatio = 50
    /\ display.stats.w1Retention = 100
    /\ \E i \in 1..Len(CohortsShown) : CohortsShown[i].w1 = 100

====
